---- MODULE Spec2Model ----
(***************************************************************************)
(* A model of the MORK kernel (kernel/src/space_temporary.rs): the Space   *)
(* of encoded paths, the permit registry of DefaultSpace, the stack        *)
(* machine referential_transition and its driver query_multi_impl, and the *)
(* transform / load / dump operations built on them; the BytesTrieMap of   *)
(* kernel/src/triemap_derivation.rs with its relational operations; and    *)
(* the ExprQueryEngine of kernel/src/expr_query.rs.                        *)
(*                                                                         *)
(* Bytes are integers 0..255, an encoded expression (a path, a pattern, a  *)
(* template) is a sequence of bytes, the trie is the set of its paths.     *)
(***************************************************************************)
EXTENDS Integers, Sequences, FiniteSets, TLC

VARIABLES space, permits, RET, lastOp,   \* the Space and its passes
          mapA, mapB, mapCall,             \* two BytesTrieMaps and the last call on them
          engine, exprCall,                \* an ExprQueryEngine and the last call on it
          jsonEngine, jsonCall, jsonSeen,  \* a JsonPathEngine, the last call on it, and what
                                           \* it has compiled and answered since the last clear
          fnCall                           \* the last call of a function that has no state

spaceVars == <<space, permits, RET, lastOp>>

mapVars == <<mapA, mapB, mapCall>>

exprVars == <<engine, exprCall>>

jsonVars == <<jsonEngine, jsonCall, jsonSeen>>

vars == <<spaceVars, mapVars, exprVars, jsonVars, fnCall>>

\* what the calls on one object leave alone: the other objects
notSpaceVars == <<mapVars, exprVars, jsonVars, fnCall>>

notMapVars == <<spaceVars, exprVars, jsonVars, fnCall>>

notExprVars == <<spaceVars, mapVars, jsonVars, fnCall>>

notJsonVars == <<spaceVars, mapVars, exprVars, fnCall>>

notFnVars == <<spaceVars, mapVars, exprVars, jsonVars>>

(***************************************************************************)
(* Bounds of the model.                                                    *)
(***************************************************************************)
\* the most paths one load puts into the Space
MaxPaths == 2
\* the most permits held by other passes at one time
MaxPermits == 2
\* a run of the engine is followed for 2^StepExp steps
StepExp == 12
\* the effect of a query returns Err at the latest at this invocation
MaxAbort == 2
\* the keys a BytesTrieMap is asked for have at most this many bytes
MaxKeyLen == 2
\* the most expressions that are inserted into an ExprQueryEngine
MaxExprs == 3
\* the longest array a slice is applied to
MaxArrayLen == 3
\* the bounds of a slice lie between -MaxSliceIndex and MaxSliceIndex
MaxSliceIndex == 4
\* the most expressions that are handed to find_matches
MaxExprList == 2

(***************************************************************************)
(* Generic helpers.                                                        *)
(***************************************************************************)
IsPrefix(a, b) == Len(a) <= Len(b) /\ SubSeq(b, 1, Len(a)) = a

Overlap(a, b) == IsPrefix(a, b) \/ IsPrefix(b, a)

Min(S) == CHOOSE x \in S : \A y \in S : x <= y

RECURSIVE SortedSeq(_)
SortedSeq(S) == IF S = {} THEN <<>> ELSE <<Min(S)>> \o SortedSeq(S \ {Min(S)})

RECURSIVE Reverse(_)
Reverse(s) == IF s = <<>> THEN <<>> ELSE Reverse(Tail(s)) \o <<Head(s)>>

RECURSIVE Flatten(_)
Flatten(ss) == IF ss = <<>> THEN <<>> ELSE Head(ss) \o Flatten(Tail(ss))

(***************************************************************************)
(* The tag byte alphabet (stubs.rs, Tag / item_byte / byte_item).          *)
(***************************************************************************)
NewVar == [tag |-> "NewVar", n |-> 0]
VarRef(i) == [tag |-> "VarRef", n |-> i]
SymbolSize(s) == [tag |-> "SymbolSize", n |-> s]
Arity(a) == [tag |-> "Arity", n |-> a]

item_byte(t) ==
    CASE t.tag = "NewVar" -> 192
      [] t.tag = "SymbolSize" -> 192 + t.n
      [] t.tag = "VarRef" -> 128 + t.n
      [] t.tag = "Arity" -> t.n

\* a byte_item without the test for the NewVar byte
byte_item_sizes_first(b) ==
    IF b \div 64 = 3 THEN SymbolSize(b % 64)
    ELSE IF b \div 64 = 2 THEN VarRef(b % 64)
    ELSE IF b \div 64 = 0 THEN Arity(b % 64)
    ELSE [tag |-> "reserved", n |-> b]

byte_item(b) ==
    IF b = 192 THEN NewVar
    ELSE IF b \div 64 = 3 THEN SymbolSize(b % 64)
    ELSE IF b \div 64 = 2 THEN VarRef(b % 64)
    ELSE IF b \div 64 = 0 THEN Arity(b % 64)
    ELSE [tag |-> "reserved", n |-> b]

\* the child-mask filters of the engine
SIZES == { item_byte(SymbolSize(size)) : size \in 1..63 }
ARITIES == { item_byte(Arity(arity)) : arity \in 1..63 }
VARS == { item_byte(NewVar) } \cup { item_byte(VarRef(size)) : size \in 0..63 }

(***************************************************************************)
(* Encoded expressions: traversal by the tag alphabet.                     *)
(***************************************************************************)
TokLen(b) == IF byte_item(b).tag = "SymbolSize" THEN 1 + byte_item(b).n ELSE 1

\* the index just past `need` complete sub-expressions that start at index i
RECURSIVE EndOf(_, _, _)
EndOf(e, i, need) ==
    IF need = 0 \/ i > Len(e) THEN i
    ELSE IF byte_item(e[i]).tag = "Arity"
         THEN EndOf(e, i + 1, need - 1 + byte_item(e[i]).n)
         ELSE EndOf(e, i + TokLen(e[i]), need - 1)

\* the sub-expression that starts at byte offset off (0-based) of e
SubExprAt(e, off) == SubSeq(e, off + 1, EndOf(e, off + 1, 1) - 1)

\* the tokens of e from index i on: [o: byte offset, t: tag, s: symbol bytes]
RECURSIVE TokensFrom(_, _)
TokensFrom(e, i) ==
    IF i > Len(e) THEN <<>>
    ELSE LET t == byte_item(e[i])
             s == IF t.tag = "SymbolSize" THEN SubSeq(e, i + 1, i + t.n) ELSE <<>>
         IN <<[o |-> i - 1, t |-> t, s |-> s]>> \o TokensFrom(e, i + TokLen(e[i]))

Tokens(e) == TokensFrom(e, 1)

\* Expr::prefix().unwrap_or_else(span): the bytes before the first variable
prefix(e) ==
    LET vs == { k \in 1..Len(Tokens(e)) : Tokens(e)[k].t.tag \in {"NewVar", "VarRef"} }
    IN IF vs = {} THEN e ELSE SubSeq(e, 1, Tokens(e)[Min(vs)].o)

\* Expr::substitute: literal tokens verbatim, VarRef(i) replaced by refs[i]
substitute(tmpl, refs) ==
    Flatten([k \in 1..Len(Tokens(tmpl)) |->
        LET tk == Tokens(tmpl)[k]
        IN CASE tk.t.tag = "VarRef" ->
                    IF tk.t.n < Len(refs) THEN refs[tk.t.n + 1] ELSE <<item_byte(tk.t)>>
             [] tk.t.tag = "SymbolSize" -> <<item_byte(tk.t)>> \o tk.s
             [] OTHER -> <<item_byte(tk.t)>>])

(***************************************************************************)
(* Opcodes of the stack program (mod stack_actions).                       *)
(***************************************************************************)
ITER_AT_DEPTH == 0
ITER_SYMBOL_SIZE == 1
ITER_SYMBOLS == 2
ITER_VARIABLES == 3
ITER_ARITIES == 4
ITER_EXPR == 5
ITER_NESTED == 6
ITER_SYMBOL == 7
ITER_ARITY == 8
ITER_VAR_SYMBOL == 9
ITER_VAR_ARITY == 10
OP_ACTION == 11
BEGIN_RANGE == 12
FINALIZE_RANGE == 13
REFER_RANGE == 14
RESERVED == 15

(***************************************************************************)
(* The engine's machine state.  One record c holds what a run of           *)
(* referential_transition reads and writes:                                *)
(*   T       the paths of the trie under the cursor (constant in a run)    *)
(*   root    the length of the path the cursor was created at              *)
(*   abortAt the invocation at which the effect returns Err (0: never)     *)
(*   buf     the opcode buffer (memory: bytes above the stack pointer stay)*)
(*   last    the stack pointer of the frame that is running (1-based)      *)
(*   lo, hi  the lowest and the highest value `last` had so far            *)
(*   loc     the cursor's absolute path (origin_path)                      *)
(*   refs    the references: offsets into the cursor's path buffer         *)
(*   calls   the invocations of the action so far: [refs, path]            *)
(*   cand    the counter `candidate`                                       *)
(*   stop    "run", or why the run left the interpreter: "abort" (longjmp),*)
(*           "panic" (unreachable!/assert!/index/overflow check), "oob"    *)
(*           (a read outside the buffer), "hang" (a loop that never ends)  *)
(*   ctl     the point of the code that runs next, with its locals         *)
(*   k       the continuations of the code that waits for a callee: the    *)
(*           host stack.  A frame of a real call (rt) keeps the caller's   *)
(*           `last`, which is passed by value; an inlined unroll! shares it*)
(*   spOk    every call of referential_transition that returned so far     *)
(*           left its own `last` where it got it                           *)
(*   bufOk   every call of referential_transition that returned so far     *)
(*           left the buffer up to its own `last` as it got it             *)
(*   locOk   every call of referential_transition that returned so far     *)
(*           left the cursor where it got it                               *)
(*   refsOk  the same of the references                                    *)
(***************************************************************************)
Stopped(c) == c.stop # "run"

Returned(c) == c.ctl.at = "return" /\ c.k = <<>>

Halted(c) == Stopped(c) \/ Returned(c)

Goto(c, ctl) == [c EXCEPT !.ctl = ctl]

Halt(c, why) == [c EXCEPT !.stop = why]

\* the end of a macro body or of the function
Return(c) == Goto(c, [at |-> "return"])

\* back in the code that waited
Resume(c) ==
    LET f == c.k[Len(c.k)]
    IN [c EXCEPT !.k = SubSeq(@, 1, Len(@) - 1),
                 !.ctl = f,
                 !.spOk = @ /\ (f.rt => c.last = f.last),
                 !.bufOk = @ /\ (f.rt => SubSeq(c.buf, 1, f.last) = SubSeq(f.buf, 1, f.last)),
                 !.locOk = @ /\ (f.rt => c.loc = f.loc),
                 !.refsOk = @ /\ (f.rt => c.refs = f.refs),
                 !.last = IF f.rt THEN f.last ELSE @]

\* unroll!(X ..) inside another macro body: X runs on the same locals, then cont
Inline(c, cont, ctl) ==
    [c EXCEPT !.k = Append(@, [last |-> c.last, rt |-> FALSE] @@ cont), !.ctl = ctl]

\* unroll!(CALL unroll!(CALL referential_transition(last, loc, references, f)))
referential_transition == [at |-> "CALL", lvl |-> 2]

\* referential_transition(last, loc, references, f) called from a macro body
CallRT(c, cont) ==
    [c EXCEPT !.k = Append(@, [last |-> c.last, buf |-> c.buf, loc |-> c.loc,
                               refs |-> c.refs, rt |-> TRUE] @@ cont),
              !.ctl = referential_transition]

\* $recursive: in the outer CALL the inlined inner CALL, in the inner CALL the call
Recur(c, cont, lvl) ==
    IF lvl = 2 THEN Inline(c, cont, [at |-> "CALL", lvl |-> 1]) ELSE CallRT(c, cont)

\* last = last.offset(1); *last = v (a write one past the end grows the buffer)
Push(c, v) ==
    LET i == c.last + 1
    IN [c EXCEPT !.last = i,
                 !.hi = IF i > @ THEN i ELSE @,
                 !.buf = IF i = Len(@) + 1 THEN Append(@, v) ELSE [@ EXCEPT ![i] = v]]

RECURSIVE PushAll(_, _)
PushAll(c, vs) == IF vs = <<>> THEN c ELSE PushAll(Push(c, Head(vs)), Tail(vs))

\* last = last.offset(-n)
Pop(c, n) == [c EXCEPT !.last = @ - n, !.lo = IF c.last - n < @ THEN c.last - n ELSE @]

\* *last is a byte of the buffer
InBuf(c) == c.last >= 1 /\ c.last <= Len(c.buf)

\* the zipper primitives the engine uses
path_exists(c) == \E p \in c.T : IsPrefix(c.loc, p)

child_mask(c) ==
    { p[Len(c.loc) + 1] : p \in { q \in c.T : Len(q) > Len(c.loc) /\ IsPrefix(c.loc, q) } }

descend_to(c, bytes) == [c EXCEPT !.loc = @ \o bytes]

descend_to_byte(c, b) == descend_to(c, <<b>>)

ascend(c, n) ==
    [c EXCEPT !.loc = IF Len(@) - n >= c.root THEN SubSeq(@, 1, Len(@) - n)
                      ELSE SubSeq(@, 1, c.root)]

ascend_byte(c) == ascend(c, 1)

can_ascend(c) == Len(c.loc) > c.root

descend_first_byte(c) == descend_to_byte(c, Min(child_mask(c)))

next_siblings(c) ==
    IF ~can_ascend(c) THEN {}
    ELSE { b \in child_mask(ascend_byte(c)) : b > c.loc[Len(c.loc)] }

to_next_sibling_byte(c) == descend_to_byte(ascend_byte(c), Min(next_siblings(c)))

\* ACTION: f(&references[..], loc), the closure query_multi_impl passes:
\* the effect, then longjmp on Err or candidate += 1 on Ok
Action(c) ==
    LET cs == Append(c.calls, [refs |-> c.refs, path |-> c.loc])
    IN IF c.abortAt = Len(cs)
       THEN Halt([c EXCEPT !.calls = cs], "abort")
       ELSE Return([c EXCEPT !.calls = cs, !.cand = @ + 1])

\* ITER_VARIABLES: every child byte that is a variable, in byte order
IterVariables(c) ==
    CASE c.ctl.at = "ITER_VARIABLES" ->
            Goto(c, [at |-> "ITER_VARIABLES_loop", it |-> SortedSeq(child_mask(c) \cap VARS)])
      [] c.ctl.at = "ITER_VARIABLES_loop" ->
            IF c.ctl.it = <<>> THEN Return(c)
            ELSE LET c1 == descend_to(c, <<Head(c.ctl.it)>>)
                     nx == [at |-> "ITER_VARIABLES_next", it |-> Tail(c.ctl.it)]
                 IN IF path_exists(c1) THEN CallRT(c1, nx) ELSE Goto(c1, nx)
      [] c.ctl.at = "ITER_VARIABLES_next" ->
            Goto(ascend(c, 1), [at |-> "ITER_VARIABLES_loop", it |-> c.ctl.it])

\* the loop body of ITER_SYMBOL_SIZE and of ITER_ARITIES: the operand goes under
\* the opcode that was on top, the rest of the program runs, the top comes back
OperandLoop(c, name, tag) ==
    CASE c.ctl.at = name \o "_loop" ->
            IF c.ctl.it = <<>> THEN Return(c)
            ELSE LET b == Head(c.ctl.it)
                     c1 == descend_to(c, <<b>>)
                     lastv == c1.buf[c1.last]
                 IN IF byte_item(b).tag # tag THEN Halt(c, "panic")
                    ELSE IF ~path_exists(c1)
                         THEN Goto(c1, [at |-> name \o "_skip", it |-> Tail(c.ctl.it)])
                    ELSE IF ~InBuf(c1) THEN Halt(c1, "oob")
                    ELSE CallRT(Push(Push(Pop(c1, 1), byte_item(b).n), lastv),
                                [at |-> name \o "_next", it |-> Tail(c.ctl.it), lastv |-> lastv])
      [] c.ctl.at = name \o "_next" ->
            Goto(ascend(Push(Pop(c, 2), c.ctl.lastv), 1),
                 [at |-> name \o "_loop", it |-> c.ctl.it])
      [] c.ctl.at = name \o "_skip" ->
            Goto(ascend(c, 1), [at |-> name \o "_loop", it |-> c.ctl.it])

\* ITER_SYMBOL_SIZE
IterSymbolSize(c) ==
    IF c.ctl.at = "ITER_SYMBOL_SIZE"
    THEN Goto(c, [at |-> "ITER_SYMBOL_SIZE_loop", it |-> SortedSeq(child_mask(c) \cap SIZES)])
    ELSE OperandLoop(c, "ITER_SYMBOL_SIZE", "SymbolSize")

\* ITER_SYMBOLS
IterSymbols(c) ==
    CASE c.ctl.at = "ITER_SYMBOLS" ->
            Inline(Push(c, ITER_AT_DEPTH), [at |-> "ITER_SYMBOLS_end"], [at |-> "ITER_SYMBOL_SIZE"])
      [] c.ctl.at = "ITER_SYMBOLS_end" -> Return(Pop(c, 1))

\* ITER_ARITIES
IterArities(c) ==
    IF c.ctl.at = "ITER_ARITIES"
    THEN Goto(c, [at |-> "ITER_ARITIES_loop", it |-> SortedSeq(child_mask(c) \cap ARITIES)])
    ELSE OperandLoop(c, "ITER_ARITIES", "Arity")

\* ITER_EXPR
IterExpr(c) ==
    CASE c.ctl.at = "ITER_EXPR" ->
            Inline(c, [at |-> "ITER_EXPR_symbols"], [at |-> "ITER_VARIABLES"])
      [] c.ctl.at = "ITER_EXPR_symbols" ->
            Inline(c, [at |-> "ITER_EXPR_arities"], [at |-> "ITER_SYMBOLS"])
      [] c.ctl.at = "ITER_EXPR_arities" ->
            Inline(Push(c, ITER_NESTED), [at |-> "ITER_EXPR_end"], [at |-> "ITER_ARITIES"])
      [] c.ctl.at = "ITER_EXPR_end" -> Return(Pop(c, 1))

\* an ITER_NESTED that takes back one byte more than it pushed
IterNested_offByOne(c) ==
    CASE c.ctl.at = "ITER_NESTED" ->
            IF ~InBuf(c) THEN Halt(c, "oob")
            ELSE LET arity == c.buf[c.last]
                     c1 == Pop(c, 1)
                 IN IF arity = 0
                    THEN CallRT(c1, [at |-> "ITER_NESTED_end", arity |-> arity, back |-> 0])
                    ELSE Inline(PushAll(c1, [j \in 1..(arity - 1) |-> ITER_EXPR]),
                                [at |-> "ITER_NESTED_end", arity |-> arity, back |-> arity],
                                [at |-> "ITER_EXPR"])
      [] c.ctl.at = "ITER_NESTED_end" -> Return(Push(Pop(c, c.ctl.back), c.ctl.arity))

\* an ITER_NESTED that pushes arity copies of ITER_EXPR
IterNested_oneMore(c) ==
    CASE c.ctl.at = "ITER_NESTED" ->
            IF ~InBuf(c) THEN Halt(c, "oob")
            ELSE LET arity == c.buf[c.last]
                     c1 == Pop(c, 1)
                 IN IF arity = 0
                    THEN CallRT(c1, [at |-> "ITER_NESTED_end", arity |-> arity, back |-> 0])
                    ELSE Inline(PushAll(c1, [j \in 1..arity |-> ITER_EXPR]),
                                [at |-> "ITER_NESTED_end", arity |-> arity, back |-> arity],
                                [at |-> "ITER_EXPR"])
      [] c.ctl.at = "ITER_NESTED_end" -> Return(Push(Pop(c, c.ctl.back), c.ctl.arity))

\* ITER_NESTED
IterNested(c) ==
    CASE c.ctl.at = "ITER_NESTED" ->
            IF ~InBuf(c) THEN Halt(c, "oob")
            ELSE LET arity == c.buf[c.last]
                     c1 == Pop(c, 1)
                 IN IF arity = 0
                    THEN CallRT(c1, [at |-> "ITER_NESTED_end", arity |-> arity, back |-> 0])
                    ELSE Inline(PushAll(c1, [j \in 1..(arity - 1) |-> ITER_EXPR]),
                                [at |-> "ITER_NESTED_end", arity |-> arity, back |-> arity - 1],
                                [at |-> "ITER_EXPR"])
      [] c.ctl.at = "ITER_NESTED_end" -> Return(Push(Pop(c, c.ctl.back), c.ctl.arity))

\* ITER_AT_DEPTH: the rest of the program at every node `level` bytes below
IterAtDepth(c) ==
    CASE c.ctl.at = "ITER_AT_DEPTH" ->
            IF ~InBuf(c) THEN Halt(c, "oob")
            ELSE Goto(Pop(c, 1), [at |-> "ITER_AT_DEPTH_descend", level |-> c.buf[c.last], i |-> 0])
      [] c.ctl.at = "ITER_AT_DEPTH_descend" ->
            \* while i < level { .. }
            IF ~(c.ctl.i < c.ctl.level) THEN Goto(c, [c.ctl EXCEPT !.at = "ITER_AT_DEPTH_visit"])
            ELSE IF child_mask(c) # {}
                 THEN Goto(descend_first_byte(c), [c.ctl EXCEPT !.i = @ + 1])
            ELSE IF next_siblings(c) # {} THEN Goto(to_next_sibling_byte(c), c.ctl)
            ELSE IF can_ascend(c)
                 THEN IF c.ctl.i = 0 THEN Halt(c, "panic")
                      ELSE Goto(ascend_byte(c), [c.ctl EXCEPT !.i = @ - 1])
            ELSE Goto(c, [c.ctl EXCEPT !.at = "ITER_AT_DEPTH_visit", !.i = 0])
      [] c.ctl.at = "ITER_AT_DEPTH_visit" ->
            \* while i > 0 { .. }
            IF ~(c.ctl.i > 0) THEN Return(Push(c, c.ctl.level))
            ELSE IF c.ctl.i = c.ctl.level
                 THEN CallRT(c, [c.ctl EXCEPT !.at = "ITER_AT_DEPTH_next"])
            ELSE IF c.ctl.i < c.ctl.level
                 THEN IF next_siblings(c) # {}
                      THEN Goto(to_next_sibling_byte(c), [c.ctl EXCEPT !.at = "ITER_AT_DEPTH_refill"])
                      ELSE IF can_ascend(c)
                           THEN Goto(ascend_byte(c), [c.ctl EXCEPT !.i = @ - 1])
                           ELSE Halt(c, "panic")
            ELSE Halt(c, "hang")
      [] c.ctl.at = "ITER_AT_DEPTH_next" ->
            IF next_siblings(c) # {}
            THEN Goto(to_next_sibling_byte(c), [c.ctl EXCEPT !.at = "ITER_AT_DEPTH_visit"])
            ELSE IF can_ascend(c)
                 THEN Goto(ascend_byte(c), [c.ctl EXCEPT !.at = "ITER_AT_DEPTH_visit", !.i = @ - 1])
                 ELSE Halt(c, "panic")
      [] c.ctl.at = "ITER_AT_DEPTH_refill" ->
            \* while i < level && loc.descend_first_byte() { i += 1 }
            IF c.ctl.i < c.ctl.level /\ child_mask(c) # {}
            THEN Goto(descend_first_byte(c), [c.ctl EXCEPT !.i = @ + 1])
            ELSE Goto(c, [c.ctl EXCEPT !.at = "ITER_AT_DEPTH_visit"])

\* ITER_SYMBOL and ITER_VAR_SYMBOL: the operand v[i] = *last going down, the
\* descent by the size byte and the symbol, the operand pushed back
IterSymbol(c) ==
    CASE c.ctl.at \in {"ITER_SYMBOL", "ITER_VAR_SYMBOL"} ->
            IF ~InBuf(c) \/ ~(c.last - c.buf[c.last] >= 1) THEN Halt(c, "oob")
            ELSE LET size == c.buf[c.last]
                     v == [j \in 1..size |-> c.buf[c.last - j]]
                     nx == [at |-> "ITER_SYMBOL_descend", size |-> size, v |-> v,
                            lvl |-> c.ctl.lvl, var |-> c.ctl.at = "ITER_VAR_SYMBOL"]
                 IN IF nx.var THEN Inline(Pop(c, 1 + size), nx, [at |-> "ITER_VARIABLES"])
                    ELSE Goto(Pop(c, 1 + size), nx)
      [] c.ctl.at = "ITER_SYMBOL_descend" ->
            LET c1 == descend_to_byte(c, item_byte(SymbolSize(c.ctl.size)))
                c2 == descend_to(c1, c.ctl.v)
            IN IF ~path_exists(c1) THEN Goto(c1, [c.ctl EXCEPT !.at = "ITER_SYMBOL_restore"])
               ELSE IF ~path_exists(c2) THEN Goto(c2, [c.ctl EXCEPT !.at = "ITER_SYMBOL_ascend"])
               ELSE IF c.ctl.var THEN CallRT(c2, [c.ctl EXCEPT !.at = "ITER_SYMBOL_ascend"])
               ELSE Recur(c2, [c.ctl EXCEPT !.at = "ITER_SYMBOL_ascend"], c.ctl.lvl)
      [] c.ctl.at = "ITER_SYMBOL_ascend" ->
            Goto(ascend(c, c.ctl.size), [c.ctl EXCEPT !.at = "ITER_SYMBOL_restore"])
      [] c.ctl.at = "ITER_SYMBOL_restore" ->
            Return(Push(PushAll(ascend_byte(c), Reverse(c.ctl.v)), c.ctl.size))

\* ITER_ARITY and ITER_VAR_ARITY
IterArity(c) ==
    CASE c.ctl.at \in {"ITER_ARITY", "ITER_VAR_ARITY"} ->
            IF ~InBuf(c) THEN Halt(c, "oob")
            ELSE LET nx == [at |-> "ITER_ARITY_descend", arity |-> c.buf[c.last]]
                 IN IF c.ctl.at = "ITER_VAR_ARITY"
                    THEN Inline(Pop(c, 1), nx, [at |-> "ITER_VARIABLES"])
                    ELSE Goto(Pop(c, 1), nx)
      [] c.ctl.at = "ITER_ARITY_descend" ->
            LET c1 == descend_to_byte(c, item_byte(Arity(c.ctl.arity)))
            IN IF path_exists(c1) THEN CallRT(c1, [c.ctl EXCEPT !.at = "ITER_ARITY_restore"])
               ELSE Goto(c1, [c.ctl EXCEPT !.at = "ITER_ARITY_restore"])
      [] c.ctl.at = "ITER_ARITY_restore" -> Return(Push(ascend_byte(c), c.ctl.arity))

\* a BEGIN_RANGE that leaves its reference behind
BeginRange_noPop(c) ==
    CASE c.ctl.at = "BEGIN_RANGE" ->
            Recur([c EXCEPT !.refs = Append(@, Len(c.loc))], [at |-> "BEGIN_RANGE_end"], c.ctl.lvl)
      [] c.ctl.at = "BEGIN_RANGE_end" -> Return(c)

\* BEGIN_RANGE: the reference is the place in the path buffer where the cursor is
BeginRange(c) ==
    CASE c.ctl.at = "BEGIN_RANGE" ->
            Recur([c EXCEPT !.refs = Append(@, Len(c.loc))], [at |-> "BEGIN_RANGE_end"], c.ctl.lvl)
      [] c.ctl.at = "BEGIN_RANGE_end" ->
            Return([c EXCEPT !.refs = SubSeq(@, 1, Len(@) - 1)])

\* FINALIZE_RANGE
FinalizeRange(c) ==
    CASE c.ctl.at = "FINALIZE_RANGE" -> Recur(c, [at |-> "FINALIZE_RANGE_end"], c.ctl.lvl)
      [] c.ctl.at = "FINALIZE_RANGE_end" -> Return(c)

\* REFER_RANGE that takes any expression at the place of the reference
ReferOps_any(toks) == IF toks = <<>> THEN <<>> ELSE <<ITER_EXPR>>

\* REFER_RANGE's compilation of the captured sub-expression, in push order
RECURSIVE ReferOps(_)
ReferOps(toks) ==
    IF toks = <<>> THEN <<>>
    ELSE LET tk == Head(toks)
         IN (CASE tk.t.tag \in {"NewVar", "VarRef"} -> <<ITER_EXPR>>
               [] tk.t.tag = "SymbolSize" -> <<ITER_VAR_SYMBOL, Len(tk.s)>> \o tk.s
               [] tk.t.tag = "Arity" -> <<ITER_VAR_ARITY, tk.t.n>>
               [] OTHER -> <<RESERVED>>)
            \o ReferOps(Tail(toks))

\* REFER_RANGE: the sub-expression at references[index] becomes program
ReferRange(c) ==
    CASE c.ctl.at = "REFER_RANGE" ->
            IF ~InBuf(c) THEN Halt(c, "oob")
            ELSE LET index == c.buf[c.last]
                     c1 == Pop(c, 1)
                 IN IF index >= Len(c.refs) THEN Halt(c1, "panic")
                    ELSE LET subexpr == SubExprAt(c.loc, c.refs[index + 1])
                         IN Recur(PushAll(c1, Reverse(ReferOps(Tokens(subexpr)))),
                                  [at |-> "REFER_RANGE_end", index |-> index, v0 |-> c1.last],
                                  c.ctl.lvl)
      [] c.ctl.at = "REFER_RANGE_end" ->
            Return(Push([c EXCEPT !.last = c.ctl.v0], c.ctl.index))

\* DISPATCH: the macro body of the opcode s
Dispatch(s, lvl) ==
    CASE s = ITER_AT_DEPTH -> [at |-> "ITER_AT_DEPTH"]
      [] s = ITER_SYMBOL_SIZE -> [at |-> "ITER_SYMBOL_SIZE"]
      [] s = ITER_SYMBOLS -> [at |-> "ITER_SYMBOLS"]
      [] s = ITER_VARIABLES -> [at |-> "ITER_VARIABLES"]
      [] s = ITER_ARITIES -> [at |-> "ITER_ARITIES"]
      [] s = ITER_EXPR -> [at |-> "ITER_EXPR"]
      [] s = ITER_NESTED -> [at |-> "ITER_NESTED"]
      [] s = ITER_SYMBOL -> [at |-> "ITER_SYMBOL", lvl |-> lvl]
      [] s = ITER_ARITY -> [at |-> "ITER_ARITY"]
      [] s = ITER_VAR_SYMBOL -> [at |-> "ITER_VAR_SYMBOL", lvl |-> lvl]
      [] s = ITER_VAR_ARITY -> [at |-> "ITER_VAR_ARITY"]
      [] s = OP_ACTION -> [at |-> "ACTION"]
      [] s = BEGIN_RANGE -> [at |-> "BEGIN_RANGE", lvl |-> lvl]
      [] s = FINALIZE_RANGE -> [at |-> "FINALIZE_RANGE", lvl |-> lvl]
      [] s = REFER_RANGE -> [at |-> "REFER_RANGE", lvl |-> lvl]
      [] OTHER -> [at |-> "unreachable"]

\* CALL: pop the opcode, run its body, push it back
Call(c) ==
    CASE c.ctl.at = "CALL" ->
            IF ~InBuf(c) THEN Halt(c, "oob")
            ELSE Inline(Pop(c, 1), [at |-> "CALL_end", lastv |-> c.buf[c.last]],
                        Dispatch(c.buf[c.last], c.ctl.lvl))
      [] c.ctl.at = "CALL_end" -> Return(Push(c, c.ctl.lastv))

\* one step of the code of referential_transition
Step(c) ==
    LET at == c.ctl.at
    IN CASE at = "return" -> Resume(c)
         [] at \in {"CALL", "CALL_end"} -> Call(c)
         [] at = "ACTION" -> Action(c)
         [] at \in {"ITER_VARIABLES", "ITER_VARIABLES_loop", "ITER_VARIABLES_next"} ->
                IterVariables(c)
         [] at \in {"ITER_SYMBOL_SIZE", "ITER_SYMBOL_SIZE_loop", "ITER_SYMBOL_SIZE_next",
                    "ITER_SYMBOL_SIZE_skip"} -> IterSymbolSize(c)
         [] at \in {"ITER_SYMBOLS", "ITER_SYMBOLS_end"} -> IterSymbols(c)
         [] at \in {"ITER_ARITIES", "ITER_ARITIES_loop", "ITER_ARITIES_next",
                    "ITER_ARITIES_skip"} -> IterArities(c)
         [] at \in {"ITER_EXPR", "ITER_EXPR_symbols", "ITER_EXPR_arities", "ITER_EXPR_end"} ->
                IterExpr(c)
         [] at \in {"ITER_NESTED", "ITER_NESTED_end"} -> IterNested(c)
         [] at \in {"ITER_AT_DEPTH", "ITER_AT_DEPTH_descend", "ITER_AT_DEPTH_visit",
                    "ITER_AT_DEPTH_next", "ITER_AT_DEPTH_refill"} -> IterAtDepth(c)
         [] at \in {"ITER_SYMBOL", "ITER_VAR_SYMBOL", "ITER_SYMBOL_descend",
                    "ITER_SYMBOL_ascend", "ITER_SYMBOL_restore"} -> IterSymbol(c)
         [] at \in {"ITER_ARITY", "ITER_VAR_ARITY", "ITER_ARITY_descend",
                    "ITER_ARITY_restore"} -> IterArity(c)
         [] at \in {"BEGIN_RANGE", "BEGIN_RANGE_end"} -> BeginRange(c)
         [] at \in {"FINALIZE_RANGE", "FINALIZE_RANGE_end"} -> FinalizeRange(c)
         [] at \in {"REFER_RANGE", "REFER_RANGE_end"} -> ReferRange(c)
         [] OTHER -> Halt(c, "panic")

\* 2^j steps at most, none once the run is over
RECURSIVE Steps(_, _)
Steps(c, j) ==
    IF Halted(c) THEN c
    ELSE IF j = 0 THEN Step(c)
    ELSE Steps(Steps(c, j - 1), j - 1)

\* the run of referential_transition(last, loc, references, f) to its end
Exec(c) ==
    LET d == Steps([c EXCEPT !.ctl = referential_transition, !.k = <<>>], StepExp)
    IN IF Halted(d) THEN d ELSE Halt(d, "hang")

(***************************************************************************)
(* The pattern compiler.                                                   *)
(***************************************************************************)
\* a compiler that takes any expression at the place of an empty compound
RECURSIVE TraverseOps_emptyAsExpr(_, _)
TraverseOps_emptyAsExpr(toks, from) ==
    IF toks = <<>> THEN <<>>
    ELSE LET tk == Head(toks)
         IN (IF tk.o < from THEN <<>>
             ELSE CASE tk.t.tag = "NewVar" -> <<BEGIN_RANGE, ITER_EXPR, FINALIZE_RANGE>>
                    [] tk.t.tag = "VarRef" -> <<REFER_RANGE, tk.t.n>>
                    [] tk.t.tag = "SymbolSize" -> <<ITER_VAR_SYMBOL, Len(tk.s)>> \o tk.s
                    [] tk.t.tag = "Arity" /\ tk.t.n = 0 -> <<ITER_EXPR>>
                    [] OTHER -> <<ITER_VAR_ARITY, tk.t.n>>)
            \o TraverseOps_emptyAsExpr(Tail(toks), from)

\* the closures of the traversal, in the order of the pattern's tokens
RECURSIVE TraverseOps(_, _)
TraverseOps(toks, from) ==
    IF toks = <<>> THEN <<>>
    ELSE LET tk == Head(toks)
         IN (IF tk.o < from THEN <<>>
             ELSE CASE tk.t.tag = "NewVar" -> <<BEGIN_RANGE, ITER_EXPR, FINALIZE_RANGE>>
                    [] tk.t.tag = "VarRef" -> <<REFER_RANGE, tk.t.n>>
                    [] tk.t.tag = "SymbolSize" -> <<ITER_VAR_SYMBOL, Len(tk.s)>> \o tk.s
                    [] OTHER -> <<ITER_VAR_ARITY, tk.t.n>>)
            \o TraverseOps(Tail(toks), from)

referential_bidirectional_matching_stack_traverse(e, from) ==
    Reverse(TraverseOps(Tokens(e), from))

\* a loop over the patterns from the first to the last
RECURSIVE CompileStack_forward(_, _)
CompileStack_forward(patterns, k) ==
    IF k = 0 THEN <<>>
    ELSE CompileStack_forward(patterns, k - 1)
         \o referential_bidirectional_matching_stack_traverse(patterns[k], Len(prefix(patterns[k])))

\* let mut stack = vec![ACTION]; for pattern in patterns.iter().rev() { extend }
RECURSIVE CompileStack(_, _)
CompileStack(patterns, k) ==
    IF k = 0 THEN <<>>
    ELSE referential_bidirectional_matching_stack_traverse(patterns[k], Len(prefix(patterns[k])))
         \o CompileStack(patterns, k - 1)

Stack(patterns) == <<OP_ACTION>> \o CompileStack(patterns, Len(patterns))

(***************************************************************************)
(* The permit registry of the zipper head (pathmap's zipper tracker, which *)
(* DefaultSpace.map is).  A live permit is a record                        *)
(*   [kind: "r" | "w", path, owner, n]                                     *)
(* owner is who holds the zipper: "caller" (another pass, through          *)
(* new_reader / new_writer), "hook" (the Vec of a reader_hook/writer_hook  *)
(* closure), "cursor" (a local of the running operation); n numbers the    *)
(* permits of one kind, path and owner.                                    *)
(***************************************************************************)
Grant(reg, kind, path, owner) ==
    reg \cup {[kind |-> kind, path |-> path, owner |-> owner,
               n |-> 1 + Cardinality({p \in reg : /\ p.kind = kind
                                                  /\ p.path = path
                                                  /\ p.owner = owner})]}

\* ZipperHead::read_zipper_at_path: refused while a write zipper overlaps
read_zipper_at_path(reg, path, owner) ==
    IF \E p \in reg : p.kind = "w" /\ Overlap(p.path, path)
    THEN [ok |-> FALSE, reg |-> reg]
    ELSE [ok |-> TRUE, reg |-> Grant(reg, "r", path, owner)]

\* ZipperHead::write_zipper_at_exclusive_path: refused while any zipper overlaps
write_zipper_at_exclusive_path(reg, path, owner) ==
    IF \E p \in reg : Overlap(p.path, path)
    THEN [ok |-> FALSE, reg |-> reg]
    ELSE [ok |-> TRUE, reg |-> Grant(reg, "w", path, owner)]

\* new_reader that asks for the path as exclusively as a writer does
new_reader_exclusive(impl, reg, path, owner) ==
    IF impl # "DefaultSpace" THEN [ok |-> TRUE, reg |-> reg]
    ELSE IF \E p \in reg : Overlap(p.path, path) THEN [ok |-> FALSE, reg |-> reg]
    ELSE [ok |-> TRUE, reg |-> Grant(reg, "r", path, owner)]

\* Space::new_reader.  impl "DefaultSpace": a tracked read zipper of the map;
\* impl "grant": an implementor that authorizes without a zipper of root()
new_reader(impl, reg, path, owner) ==
    IF impl = "DefaultSpace" THEN read_zipper_at_path(reg, path, owner)
    ELSE [ok |-> TRUE, reg |-> reg]

\* new_writer that is refused by writers only, as a reader is
new_writer_shared(impl, reg, path, owner) ==
    IF impl # "DefaultSpace" THEN [ok |-> TRUE, reg |-> reg]
    ELSE IF \E p \in reg : p.kind = "w" /\ Overlap(p.path, path) THEN [ok |-> FALSE, reg |-> reg]
    ELSE [ok |-> TRUE, reg |-> Grant(reg, "w", path, owner)]

\* Space::new_writer
new_writer(impl, reg, path, owner) ==
    IF impl = "DefaultSpace" THEN write_zipper_at_exclusive_path(reg, path, owner)
    ELSE [ok |-> TRUE, reg |-> reg]

\* reader_hook whose readers outlive the closure
reader_hook_leak(impl, reg, p) == new_reader(impl, reg, p, "caller")

\* Space::reader_hook: the closure keeps every reader it was granted
reader_hook(impl, reg, p) == new_reader(impl, reg, p, "hook")

\* Space::writer_hook: the closure keeps every writer it was granted
writer_hook(impl, reg, p) == new_writer(impl, reg, p, "hook")

\* the end of a statement or a function: the zippers of these owners are dropped
drop(reg, owners) == { p \in reg : p.owner \notin owners }

(***************************************************************************)
(* The driver query_multi_impl.                                            *)
(***************************************************************************)
\* the trie below path, as paths relative to it
Below(S, path) == { SubSeq(p, Len(path) + 1, Len(p)) : p \in { q \in S : IsPrefix(path, q) } }

\* WriteZipper::graft / graft_map: the trie below path becomes src
graft(S, path, src) == { q \in S : ~IsPrefix(path, q) } \cup { path \o p : p \in src }

\* the loop over patterns[1..] with the graft made in the Space itself
RECURSIVE GraftLoop_inSpace(_, _, _, _, _)
GraftLoop_inSpace(impl, g, patterns, first_pattern_prefix, i) ==
    IF i > Len(patterns) \/ ~g.ok THEN g
    ELSE LET h == reader_hook(impl, g.reg, first_pattern_prefix)
             z == read_zipper_at_path(h.reg, first_pattern_prefix, "statement")
             below == Below(g.S, first_pattern_prefix)
             peak == IF Cardinality(z.reg) > Cardinality(g.peak) THEN z.reg ELSE g.peak
         IN IF ~h.ok THEN [g EXCEPT !.ok = FALSE, !.err = "hook"]
            ELSE IF ~z.ok THEN [g EXCEPT !.ok = FALSE, !.err = "conflict", !.reg = h.reg]
            ELSE GraftLoop_inSpace(impl,
                     [g EXCEPT !.reg = drop(z.reg, {"statement"}), !.peak = peak,
                               !.S = graft(@, prefix(patterns[i]), below),
                               !.tmp_maps = Append(@, graft({}, prefix(patterns[i]), below))],
                     patterns, first_pattern_prefix, i + 1)

\* for p in patterns[1..]: tmp_maps.push(new()); reader_hook(first_pattern_prefix)?;
\* tmp_maps.last().write_zipper_at_path(prefix).graft(&s.read_zipper_at_path(
\* first_pattern_prefix)?), the read zipper being a temporary of the statement.
\* g: [ok, err, S, reg, peak, tmp_maps]
RECURSIVE GraftLoop(_, _, _, _, _)
GraftLoop(impl, g, patterns, first_pattern_prefix, i) ==
    IF i > Len(patterns) \/ ~g.ok THEN g
    ELSE LET h == reader_hook(impl, g.reg, first_pattern_prefix)
             z == read_zipper_at_path(h.reg, first_pattern_prefix, "statement")
             tmp == graft({}, prefix(patterns[i]), Below(g.S, first_pattern_prefix))
             peak == IF Cardinality(z.reg) > Cardinality(g.peak) THEN z.reg ELSE g.peak
         IN IF ~h.ok THEN [g EXCEPT !.ok = FALSE, !.err = "hook"]
            ELSE IF ~z.ok THEN [g EXCEPT !.ok = FALSE, !.err = "conflict", !.reg = h.reg]
            ELSE GraftLoop(impl,
                           [g EXCEPT !.reg = drop(z.reg, {"statement"}), !.peak = peak,
                                     !.tmp_maps = Append(@, tmp)],
                           patterns, first_pattern_prefix, i + 1)

\* ProductZipper::new(rz, tmp_maps[i].read_zipper_at_path(prefix_i)): a path of
\* the first factor continued by a path of every further factor
RECURSIVE ProductZipper(_, _)
ProductZipper(rz, zs) ==
    IF zs = <<>> THEN rz
    ELSE ProductZipper({ p \o q : p \in rz, q \in Head(zs) }, Tail(zs))

\* query_multi_impl(s, patterns, reader_hook, effect) up to the end of the run
\* of the engine; the effect returns Err at its abortAt-th invocation.
\* The result: ok/err of the zipper requests, the trie, the registry (now and
\* at its fullest), whether the engine ran, its invocations of the action,
\* candidate, how it stopped, and the thread's RET slot
query_multi_impl(S, reg, ret, patterns, impl, abortAt) ==
    LET first_pattern_prefix == prefix(patterns[1])
        h == reader_hook(impl, reg, first_pattern_prefix)
        rz == read_zipper_at_path(h.reg, first_pattern_prefix, "cursor")
        g == GraftLoop(impl, [ok |-> TRUE, err |-> "", S |-> S, reg |-> rz.reg,
                              peak |-> rz.reg, tmp_maps |-> <<>>],
                       patterns, first_pattern_prefix, 2)
        prz == ProductZipper(Below(g.S, first_pattern_prefix),
                             [i \in 1..Len(g.tmp_maps) |->
                                 Below(g.tmp_maps[i], prefix(patterns[i + 1]))])
        stack == Stack(patterns)
        run == { Exec([T |-> { first_pattern_prefix \o p : p \in prz },
                       root |-> Len(first_pattern_prefix), abortAt |-> abortAt,
                       buf |-> st, last |-> Len(st), lo |-> Len(st), hi |-> Len(st),
                       loc |-> first_pattern_prefix,
                       refs |-> <<>>, calls |-> <<>>, cand |-> 0, stop |-> "run",
                       spOk |-> TRUE, bufOk |-> TRUE, locOk |-> TRUE, refsOk |-> TRUE,
                       ctl |-> referential_transition, k |-> <<>>]) :
                 st \in {stack} }
        none == [run |-> FALSE, calls |-> <<>>, cand |-> 0, stop |-> "run", ret |-> ret]
    IN IF ~h.ok
       THEN none @@ [ok |-> FALSE, err |-> "hook", S |-> S, reg |-> h.reg, peak |-> h.reg]
       ELSE IF ~rz.ok
       THEN none @@ [ok |-> FALSE, err |-> "conflict", S |-> S, reg |-> h.reg, peak |-> h.reg]
       ELSE IF ~g.ok
       THEN none @@ [ok |-> FALSE, err |-> g.err, S |-> g.S, reg |-> g.reg, peak |-> g.peak]
       ELSE CHOOSE r \in { [ok |-> TRUE, err |-> "", S |-> g.S, reg |-> g.reg,
                               peak |-> g.peak, run |-> TRUE, calls |-> c.calls,
                               cand |-> c.cand, stop |-> c.stop,
                               ret |-> IF c.stop = "abort" THEN "set" ELSE ret] :
                             c \in run } : TRUE

\* what a read of the RET slot can yield: the error of the effect, or bytes
\* that read as a Conflict or as another HookError
UBReads == {"effect", "conflict", "hook"}

\* RET.with(..) at the end of query_multi_impl: Ok(candidate) while the slot is
\* null; else the slot is read as an Either<Conflict, HookError> and freed, and
\* stays set.  What was written there is a HookError, and after the first
\* time the memory is freed: the read yields any of UBReads.
\* The set of the values query_multi_impl can return
ReadRET(q) ==
    IF ~q.ok THEN {[ok |-> FALSE, val |-> q.err]}
    ELSE IF q.stop \notin {"run", "abort"} THEN {[ok |-> FALSE, val |-> q.stop]}
    ELSE IF q.ret = "null" THEN {[ok |-> TRUE, val |-> q.cand]}
    ELSE { [ok |-> FALSE, val |-> u] : u \in UBReads }

\* the RET slot after query_multi_impl has returned
AfterRET(q) == IF q.ok /\ q.ret # "null" THEN "freed" ELSE q.ret

(***************************************************************************)
(* Matching and instantiation of data (mork_bytestring).                   *)
(***************************************************************************)
\* the tokens of pattern p from the k-th on against e from byte offset off on;
\* caps are the sub-expressions captured so far
RECURSIVE MatchFrom(_, _, _, _, _)
MatchFrom(toks, k, e, off, caps) ==
    IF k > Len(toks) THEN [ok |-> off = Len(e), refs |-> caps]
    ELSE IF off >= Len(e) THEN [ok |-> FALSE, refs |-> caps]
    ELSE LET tk == toks[k]
             sub == SubExprAt(e, off)
             no == [ok |-> FALSE, refs |-> caps]
         IN CASE tk.t.tag = "NewVar" ->
                    MatchFrom(toks, k + 1, e, off + Len(sub), Append(caps, sub))
              [] tk.t.tag = "VarRef" ->
                    IF tk.t.n < Len(caps) /\ sub = caps[tk.t.n + 1]
                    THEN MatchFrom(toks, k + 1, e, off + Len(sub), caps) ELSE no
              [] tk.t.tag = "SymbolSize" ->
                    IF SubSeq(e, off + 1, off + 1 + tk.t.n) = <<item_byte(tk.t)>> \o tk.s
                    THEN MatchFrom(toks, k + 1, e, off + 1 + tk.t.n, caps) ELSE no
              [] OTHER ->
                    IF e[off + 1] = item_byte(tk.t)
                    THEN MatchFrom(toks, k + 1, e, off + 1, caps) ELSE no

\* the patterns, one after the other, against the expressions of e one after
\* the other: [ok, refs]
Match(patterns, e) == MatchFrom(Tokens(Flatten(patterns)), 1, e, 0, <<>>)

\* Expr::transformData(pattern, template, oz): the template instantiated with
\* what the pattern captures in data
transformData(data, pattern, template) ==
    LET m == Match(<<pattern>>, data)
    IN IF m.ok THEN [ok |-> TRUE, out |-> substitute(template, m.refs)]
       ELSE [ok |-> FALSE, out |-> <<>>]

\* the references the action gets: the sub-expressions of the cursor's path
\* that start at the recorded places
RefsOf(call) == [i \in 1..Len(call.refs) |-> SubExprAt(call.path, call.refs[i])]

(***************************************************************************)
(* The operations of the Space.                                            *)
(***************************************************************************)
\* wz.descend_to(&buffer[prefix.len()..oz.loc]); wz.set_value(()); wz.reset()
\* for the write zipper at the template's prefix
WriteUnder(S, template_prefix, out) ==
    S \cup { template_prefix \o SubSeq(out, Len(template_prefix) + 1, Len(out)) }

\* the closure of transform_multi_multi_impl on one match: every template
RECURSIVE Effect(_, _, _, _)
Effect(S, call, templates, i) ==
    IF i > Len(templates) THEN S
    ELSE Effect(WriteUnder(S, prefix(templates[i]), substitute(templates[i], RefsOf(call))),
                call, templates, i + 1)

RECURSIVE Effects(_, _, _, _)
Effects(S, calls, templates, j) ==
    IF j > Len(calls) THEN S
    ELSE Effects(Effect(S, calls[j], templates, 1), calls, templates, j + 1)

\* for each template: (writer_hook(p), s.write_zipper_at_exclusive_path(p)),
\* then hook?, then each?
RECURSIVE TemplateLoop(_, _, _, _)
TemplateLoop(impl, t, templates, i) ==
    IF i > Len(templates) \/ ~t.ok THEN t
    ELSE LET h == writer_hook(impl, t.reg, prefix(templates[i]))
             wz == write_zipper_at_exclusive_path(h.reg, prefix(templates[i]), "cursor")
             peak == IF Cardinality(wz.reg) > Cardinality(t.peak) THEN wz.reg ELSE t.peak
         IN IF ~h.ok THEN [ok |-> FALSE, err |-> "hook", reg |-> wz.reg, peak |-> peak]
            ELSE IF ~wz.ok THEN [ok |-> FALSE, err |-> "conflict", reg |-> wz.reg, peak |-> peak]
            ELSE TemplateLoop(impl, [t EXCEPT !.reg = wz.reg, !.peak = peak], templates, i + 1)

\* transform_multi_multi_impl(s, patterns, templates, writer_hook, reader_hook)
\* up to the return of query_multi_impl: [q, S, peak]
transform_multi_multi_impl(S, reg, ret, patterns, templates, impl) ==
    CHOOSE r \in
        { IF ~t.ok
          THEN [q |-> [ok |-> FALSE, err |-> t.err, run |-> FALSE, calls |-> <<>>, cand |-> 0,
                       stop |-> "run", ret |-> ret, S |-> S, reg |-> t.reg, peak |-> t.peak],
                S |-> S, peak |-> t.peak]
          ELSE CHOOSE u \in
                  { [q |-> q, S |-> Effects(q.S, q.calls, templates, 1),
                     peak |-> IF Cardinality(q.peak) > Cardinality(t.peak)
                              THEN q.peak ELSE t.peak] :
                    q \in {query_multi_impl(S, t.reg, ret, patterns, impl, 0)} } : TRUE :
          t \in {TemplateLoop(impl, [ok |-> TRUE, err |-> "", reg |-> reg, peak |-> reg],
                              templates, 1)} } : TRUE

\* load_sexpr_impl / load_csv_impl after wz_fn: every item of the input is
\* an expression or "bad" (a parse error, which ends the load)
RECURSIVE LoadItems(_, _, _, _, _)
LoadItems(S, items, pattern, template, n) ==
    IF items = <<>> THEN [S |-> S, res |-> [ok |-> TRUE, val |-> n]]
    ELSE IF Head(items) = <<>> THEN [S |-> S, res |-> [ok |-> FALSE, val |-> "parse"]]
    ELSE LET d == transformData(Head(items), pattern, template)
         IN IF d.ok
            THEN LoadItems(WriteUnder(S, prefix(template), d.out), Tail(items),
                           pattern, template, n + 1)
            ELSE LoadItems(S, Tail(items), pattern, template, n)

\* the wz_fn of load_sexpr and load_csv: writer_hook(p)?, then
\* self.root().write_zipper_at_exclusive_path(p)
wz_fn(impl, reg, p) ==
    LET h == writer_hook(impl, reg, p)
        wz == write_zipper_at_exclusive_path(h.reg, p, "cursor")
    IN IF ~h.ok THEN [ok |-> FALSE, err |-> "hook", reg |-> h.reg]
       ELSE IF ~wz.ok THEN [ok |-> FALSE, err |-> "conflict", reg |-> wz.reg]
       ELSE [ok |-> TRUE, err |-> "", reg |-> wz.reg]

\* Space::load_sexpr and Space::load_csv: [S, res, peak]
load_impl(S, reg, items, pattern, template, impl) ==
    LET wz == wz_fn(impl, reg, prefix(template))
    IN IF ~wz.ok THEN [S |-> S, res |-> [ok |-> FALSE, val |-> wz.err], peak |-> wz.reg]
       ELSE LoadItems(S, items, pattern, template, 0) @@ [peak |-> wz.reg]

\* the longest symbol of the build without interning
MaxSymbolLen == 63

\* ParDataParser::tokenizer without interning: the token, cut to 63 bytes
tokenizer(s) == IF Len(s) > MaxSymbolLen THEN SubSeq(s, 1, MaxSymbolLen) ELSE s

\* ExprZipper::write_symbol: the SymbolSize byte of the length, then the bytes
write_symbol(token) == <<item_byte(SymbolSize(Len(token)))>> \o token

\* a row of CSV as load_csv_impl encodes it: an arity and one symbol per field
csv_row(fields) ==
    <<item_byte(Arity(Len(fields)))>>
    \o Flatten([i \in 1..Len(fields) |-> write_symbol(tokenizer(fields[i]))])

(***************************************************************************)
(* BytesTrieMap<V> of triemap_derivation.rs.  A trie is the function from  *)
(* the paths of its nodes to their values: <<>> is None and <<v>> is       *)
(* Some(v); the root is the node <<>>, and the node at p has a child at    *)
(* the byte b exactly when p \o <<b>> is a node.                           *)
(***************************************************************************)
\* TrieNode::new() as the root: no value, no children
BytesTrieMap_new == (<<>> :> <<>>)

\* the keys of node.children, in the order of the BTreeMap
children(t, node) ==
    SortedSeq({ p[Len(p)] : p \in { q \in DOMAIN t : Len(q) = Len(node) + 1 /\ IsPrefix(node, q) } })

\* node.children.entry(byte).or_insert_with(TrieNode::new)
or_insert_with(t, child) == IF child \in DOMAIN t THEN t ELSE t @@ (child :> <<>>)

\* the trie without the node at child
children_remove(t, child) == [p \in DOMAIN t \ {child} |-> t[p]]

\* for &byte in key { node = node.children.entry(byte).or_insert_with(..) }
RECURSIVE insert_loop(_, _, _)
insert_loop(t, key, depth) ==
    IF depth = Len(key) THEN t
    ELSE insert_loop(or_insert_with(t, SubSeq(key, 1, depth + 1)), key, depth + 1)

\* insert(key, value): [map, ret], ret being node.value.replace(value)
insert(t, key, value) ==
    LET n == insert_loop(t, key, 0)
    IN [map |-> [n EXCEPT ![key] = <<value>>], ret |-> n[key]]

\* for &byte in key { node = node.children.get(&byte)? }; node.value.as_ref()
RECURSIVE get_loop(_, _, _)
get_loop(t, key, depth) ==
    IF depth = Len(key) THEN t[key]
    ELSE IF SubSeq(key, 1, depth + 1) \in DOMAIN t THEN get_loop(t, key, depth + 1)
    ELSE <<>>

get(t, key) == get_loop(t, key, 0)

contains_key(t, key) == get(t, key) # <<>>

\* a remove that takes an emptied node away with all that is below it
RECURSIVE remove_recursive_prune(_, _, _, _)
remove_recursive_prune(t, node, key, depth) ==
    IF depth = Len(key) THEN [map |-> [t EXCEPT ![node] = <<>>], ret |-> t[node]]
    ELSE LET child == Append(node, key[depth + 1])
         IN IF child \in DOMAIN t
            THEN LET result == remove_recursive_prune(t, child, key, depth + 1)
                 IN IF result.map[child] = <<>>
                    THEN [result EXCEPT !.map = [p \in { q \in DOMAIN @ : ~IsPrefix(child, q) } |-> @[p]]]
                    ELSE result
            ELSE [map |-> t, ret |-> <<>>]

\* remove_recursive(node, key, depth): [map, ret]
RECURSIVE remove_recursive(_, _, _, _)
remove_recursive(t, node, key, depth) ==
    IF depth = Len(key) THEN [map |-> [t EXCEPT ![node] = <<>>], ret |-> t[node]]
    ELSE LET child == Append(node, key[depth + 1])
         IN IF child \in DOMAIN t
            THEN LET result == remove_recursive(t, child, key, depth + 1)
                 IN \* clean up empty nodes
                    IF result.map[child] = <<>> /\ children(result.map, child) = <<>>
                    THEN [result EXCEPT !.map = children_remove(@, child)]
                    ELSE result
            ELSE [map |-> t, ret |-> <<>>]

remove(t, key) == remove_recursive(t, <<>>, key, 0)

\* a count of the values of the leaves only
count_values_leaves(t, node) ==
    Cardinality({ p \in DOMAIN t : IsPrefix(node, p) /\ t[p] # <<>> /\ children(t, p) = <<>> })

RECURSIVE count_values(_, _)
RECURSIVE count_children(_, _, _)
\* for child in node.children.values() { count += self.count_values(child) }
count_children(t, node, bytes) ==
    IF bytes = <<>> THEN 0
    ELSE count_values(t, Append(node, Head(bytes))) + count_children(t, node, Tail(bytes))

count_values(t, node) ==
    (IF t[node] # <<>> THEN 1 ELSE 0) + count_children(t, node, children(t, node))

len(t) == count_values(t, <<>>)

is_empty(t) == len(t) = 0

RECURSIVE union_recursive(_, _, _)
RECURSIVE union_children(_, _, _, _)
\* for (&byte, other_child) in &other_node.children { or_insert_with; recurse }
union_children(t, o, node, bytes) ==
    IF bytes = <<>> THEN t
    ELSE LET child == Append(node, Head(bytes))
         IN union_children(union_recursive(or_insert_with(t, child), o, child),
                           o, node, Tail(bytes))

\* a union that takes the other operand's value wherever it has one
union_recursive_other(t, o, node) ==
    [p \in DOMAIN t \cup DOMAIN o |->
        IF p \in DOMAIN o /\ o[p] # <<>> THEN o[p] ELSE IF p \in DOMAIN t THEN t[p] ELSE <<>>]

union_recursive(t, o, node) ==
    union_children(IF t[node] = <<>> /\ o[node] # <<>> THEN [t EXCEPT ![node] = o[node]] ELSE t,
                   o, node, children(o, node))

union_with(t, o) == union_recursive(t, o, <<>>)

\* let mut result = self.clone(); result.union_with(other); result
union(t, o) == union_with(t, o)

RECURSIVE intersection_recursive(_, _, _, _)
RECURSIVE intersection_children(_, _, _, _, _)
\* for (&byte, child1) in &node1.children { if let Some(child2) = .. }
intersection_children(node1, node2, result, node, bytes) ==
    IF bytes = <<>> THEN result
    ELSE LET child == Append(node, Head(bytes))
         IN intersection_children(node1, node2,
                IF child \in DOMAIN node2
                THEN intersection_recursive(node1, node2, or_insert_with(result, child), child)
                ELSE result,
                node, Tail(bytes))

intersection_recursive(node1, node2, result, node) ==
    intersection_children(node1, node2,
        IF node1[node] # <<>> /\ node2[node] # <<>>
        THEN [result EXCEPT ![node] = node1[node]] ELSE result,
        node, children(node1, node))

intersection(t, o) == intersection_recursive(t, o, BytesTrieMap_new, <<>>)

RECURSIVE difference_recursive(_, _, _)
RECURSIVE difference_children(_, _, _, _)
\* for (&byte, child) in &mut node.children { if let Some(other_child) = .. }
difference_children(t, o, node, bytes) ==
    IF bytes = <<>> THEN t
    ELSE LET child == Append(node, Head(bytes))
         IN difference_children(IF child \in DOMAIN o THEN difference_recursive(t, o, child) ELSE t,
                                o, node, Tail(bytes))

\* node.children.retain(|_, child| child.value.is_some() || !child.children.is_empty())
retain(t, node) ==
    [p \in { q \in DOMAIN t :
               ~(/\ Len(q) = Len(node) + 1
                 /\ IsPrefix(node, q)
                 /\ t[q] = <<>>
                 /\ children(t, q) = <<>>) } |-> t[p]]

difference_recursive(t, o, node) ==
    retain(difference_children(IF o[node] # <<>> THEN [t EXCEPT ![node] = <<>>] ELSE t,
                               o, node, children(t, node)),
           node)

difference_with(t, o) == difference_recursive(t, o, <<>>)

\* let mut result = self.clone(); result.difference_with(other); result
difference(t, o) == difference_with(t, o)

\* insert_owned(key, value): [map, ret]
insert_owned(t, key, value) == insert(t, key, value)

(***************************************************************************)
(* ExprQueryEngine of expr_query.rs.  An ExprStructure and an ExprPattern  *)
(* are records [tag, name, arity, children]: name is the bytes of a symbol *)
(* or of a variable's name, children the children of a compound or the     *)
(* sub-patterns of a compound pattern.  The engine is the record of its    *)
(* fields; a BTreeMap is the function from its keys to their values and a  *)
(* Vec is a sequence.                                                      *)
(***************************************************************************)
Symbol(s) == [tag |-> "Symbol", name |-> s, arity |-> 0, children |-> <<>>]

Variable(v) == [tag |-> "Variable", name |-> v, arity |-> 0, children |-> <<>>]

Compound(a, cs) == [tag |-> "Compound", name |-> <<>>, arity |-> a, children |-> cs]

AnyPattern == [tag |-> "Any", name |-> <<>>, arity |-> 0, children |-> <<>>]

\* ExprQueryEngine::new()
ExprQueryEngine_new ==
    [structure_index |-> BytesTrieMap_new, symbol_index |-> <<>>, arity_index |-> <<>>,
     expressions |-> <<>>, next_id |-> 1]

\* n >> (8 * k)
RECURSIVE shr_bytes(_, _)
shr_bytes(n, k) == IF k = 0 THEN n ELSE shr_bytes(n \div 256, k - 1)

\* usize::to_be_bytes
to_be_bytes(n) == [i \in 1..8 |-> shr_bytes(n, 8 - i) % 256]

RECURSIVE encode_structure(_)
encode_structure(structure) ==
    CASE structure.tag = "Symbol" -> <<1>> \o structure.name
      [] structure.tag = "Variable" -> <<2>> \o structure.name
      [] OTHER -> <<3>> \o to_be_bytes(structure.arity)
                  \o Flatten([i \in 1..Len(structure.children) |->
                                 encode_structure(structure.children[i])])

create_structural_key(structure) == encode_structure(structure)

\* an indexing that replaces the id list of the key
entry_push_replace(index, key, id) ==
    [k \in DOMAIN index \cup {key} |-> IF k = key THEN <<id>> ELSE index[k]]

\* index.entry(key).or_default().push(id)
entry_push(index, key, id) ==
    IF key \in DOMAIN index THEN [index EXCEPT ![key] = Append(@, id)]
    ELSE index @@ (key :> <<id>>)

\* an unindexing that drops the whole entry of the key
entry_retain_drop(index, key, id) == [k \in DOMAIN index \ {key} |-> index[k]]

\* if let Some(ids) = index.get_mut(key) { ids.retain(|&x| x != id);
\*   if ids.is_empty() { index.remove(key) } }
entry_retain(index, key, id) ==
    IF key \notin DOMAIN index THEN index
    ELSE LET ids == SelectSeq(index[key], LAMBDA x : x # id)
         IN IF ids = <<>> THEN [k \in DOMAIN index \ {key} |-> index[k]]
            ELSE [index EXCEPT ![key] = ids]

RECURSIVE index_expression(_, _, _)
RECURSIVE index_children(_, _, _)
\* for child in children { self.index_expression(id, child) }
index_children(e, id, cs) ==
    IF cs = <<>> THEN e ELSE index_children(index_expression(e, id, Head(cs)), id, Tail(cs))

index_expression(e, id, structure) ==
    CASE structure.tag = "Symbol" ->
            [e EXCEPT !.symbol_index = entry_push(@, structure.name, id)]
      [] structure.tag = "Variable" -> e
      [] OTHER ->
            LET e1 == [e EXCEPT !.arity_index = entry_push(@, structure.arity, id)]
                e2 == index_children(e1, id, structure.children)
            IN [e2 EXCEPT !.structure_index =
                              insert_owned(@, create_structural_key(structure), <<id>>).map]

RECURSIVE unindex_expression(_, _, _)
RECURSIVE unindex_children(_, _, _)
unindex_children(e, id, cs) ==
    IF cs = <<>> THEN e ELSE unindex_children(unindex_expression(e, id, Head(cs)), id, Tail(cs))

unindex_expression(e, id, structure) ==
    CASE structure.tag = "Symbol" ->
            [e EXCEPT !.symbol_index = entry_retain(@, structure.name, id)]
      [] structure.tag = "Variable" -> e
      [] OTHER ->
            LET e1 == [e EXCEPT !.arity_index = entry_retain(@, structure.arity, id)]
                e2 == unindex_children(e1, id, structure.children)
            IN [e2 EXCEPT !.structure_index = remove(@, create_structural_key(structure)).map]

\* ExprQueryEngine::insert(structure): [engine, id]
expr_insert(e, structure) ==
    LET id == e.next_id
        e1 == [e EXCEPT !.next_id = @ + 1, !.expressions = @ @@ (id :> structure)]
    IN [engine |-> index_expression(e1, id, structure), id |-> id]

\* ExprQueryEngine::remove(id): [engine, ret], ret an Option
expr_remove(e, id) ==
    IF id \in DOMAIN e.expressions
    THEN [engine |-> unindex_expression(
                         [e EXCEPT !.expressions = [k \in DOMAIN @ \ {id} |-> @[k]]],
                         id, e.expressions[id]),
          ret |-> <<e.expressions[id]>>]
    ELSE [engine |-> e, ret |-> <<>>]

query_by_arity(e, arity) == IF arity \in DOMAIN e.arity_index THEN e.arity_index[arity] ELSE <<>>

query_by_symbol(e, symbol) ==
    IF symbol \in DOMAIN e.symbol_index THEN e.symbol_index[symbol] ELSE <<>>

RECURSIVE matches_pattern(_, _)
matches_pattern(structure, pattern) ==
    CASE pattern.tag = "Any" -> TRUE
      [] structure.tag = "Symbol" /\ pattern.tag = "Symbol" -> structure.name = pattern.name
      [] structure.tag = "Variable" /\ pattern.tag = "Variable" -> structure.name = pattern.name
      [] structure.tag = "Compound" /\ pattern.tag = "Compound" ->
            /\ structure.arity = pattern.arity
            /\ Len(structure.children) = Len(pattern.children)
            /\ \A i \in 1..Len(structure.children) :
                  matches_pattern(structure.children[i], pattern.children[i])
      [] OTHER -> FALSE

\* self.expressions.iter().filter_map(..).collect(), in the order of the ids
scan(e, pattern) ==
    SelectSeq(SortedSeq(DOMAIN e.expressions),
              LAMBDA id : matches_pattern(e.expressions[id], pattern))

\* find_matches(pattern, stats): the Vec of the matched ids
find_matches(e, pattern) ==
    CASE pattern.tag = "Any" -> SortedSeq(DOMAIN e.expressions)
      [] pattern.tag = "Symbol" -> query_by_symbol(e, pattern.name)
      [] pattern.tag = "Variable" -> scan(e, pattern)
      [] OTHER ->
            SelectSeq(query_by_arity(e, pattern.arity),
                      LAMBDA id : /\ id \in DOMAIN e.expressions
                                  /\ matches_pattern(e.expressions[id], pattern))

\* ExprQueryEngine::stats()
stats(e) ==
    [total_expressions |-> Cardinality(DOMAIN e.expressions),
     unique_symbols |-> Cardinality(DOMAIN e.symbol_index),
     indexed_arities |-> Cardinality(DOMAIN e.arity_index),
     structure_index_size |-> len(e.structure_index)]

\* ExprQueryEngine::query(pattern).matched_ids
expr_query(e, pattern) == find_matches(e, pattern)

(***************************************************************************)
(* JsonPathEngine of jsonpath_engine.rs.  A string is the sequence of its  *)
(* characters.  A serde_json Value is a record [kind, num, keys, items]:   *)
(* a number, an array of items, or an object whose i-th key maps to the    *)
(* i-th item (the keys ascending, as the Map iterates).  An Option is <<>> *)
(* or <<v>>; a Result is a record with the field ok.                       *)
(***************************************************************************)
JNum(n) == [kind |-> "Number", num |-> n, keys |-> <<>>, items |-> <<>>]

JArr(items) == [kind |-> "Array", num |-> 0, keys |-> <<>>, items |-> items]

JObj(ks, items) == [kind |-> "Object", num |-> 0, keys |-> ks, items |-> items]

\* JsonPathConfig::default()
JsonPathConfig_default == [max_depth |-> 100, enable_caching |-> TRUE, allow_extensions |-> FALSE]

\* JsonPathEngine::with_config(config)
with_config(config) == [compiled_cache |-> <<>>, config |-> config]

JsonPathEngine_new == with_config(JsonPathConfig_default)

\* the variants of PathSegment the parser builds
Seg(kind) ==
    [seg |-> kind, key |-> <<>>, idx |-> 0, start |-> <<>>, end |-> <<>>, step |-> <<>>,
     segs |-> <<>>]

Digits == <<"0", "1", "2", "3", "4", "5", "6", "7", "8", "9">>

DigitOf(ch) == (CHOOSE d \in 1..10 : Digits[d] = ch) - 1

IsDigit(ch) == \E d \in 1..10 : Digits[d] = ch

RECURSIVE digits_value(_, _)
digits_value(s, acc) ==
    IF s = <<>> THEN acc ELSE digits_value(Tail(s), 10 * acc + DigitOf(Head(s)))

\* str::parse::<i64>().ok(): an optional sign and at least one digit
parse_i64(s) ==
    LET body == IF s # <<>> /\ Head(s) \in {"+", "-"} THEN Tail(s) ELSE s
    IN IF body = <<>> \/ \E i \in 1..Len(body) : ~IsDigit(body[i]) THEN <<>>
       ELSE IF s # <<>> /\ Head(s) = "-" THEN <<0 - digits_value(body, 0)>>
       ELSE <<digits_value(body, 0)>>

\* format!("{}", n) of an integer
RECURSIVE format_nat(_)
format_nat(n) ==
    IF n < 10 THEN <<Digits[n + 1]>> ELSE format_nat(n \div 10) \o <<Digits[(n % 10) + 1]>>

format_int(n) == IF n < 0 THEN <<"-">> \o format_nat(0 - n) ELSE format_nat(n)

\* str::trim
RECURSIVE trim(_)
trim(s) ==
    IF s = <<>> THEN s
    ELSE IF Head(s) = " " THEN trim(Tail(s))
    ELSE IF s[Len(s)] = " " THEN trim(SubSeq(s, 1, Len(s) - 1))
    ELSE s

\* str::split(sep).collect()
RECURSIVE split(_, _)
split(s, sep) ==
    IF \A i \in 1..Len(s) : s[i] # sep THEN <<s>>
    ELSE LET at == CHOOSE i \in 1..Len(s) : s[i] = sep /\ \A j \in 1..(i - 1) : s[j] # sep
         IN <<SubSeq(s, 1, at - 1)>> \o split(SubSeq(s, at + 1, Len(s)), sep)

contains(s, ch) == \E i \in 1..Len(s) : s[i] = ch

\* the selectors of a union [a,b,c]
RECURSIVE union_parts(_)
union_parts(parts) ==
    IF parts = <<>> THEN <<>>
    ELSE LET part == trim(Head(parts))
             index == parse_i64(part)
         IN <<IF index # <<>> THEN [Seg("Index") EXCEPT !.idx = index[1]]
              ELSE [Seg("Child") EXCEPT !.key = part]>> \o union_parts(Tail(parts))

\* PathParser::parse_bracket_content(content): a Result of a segment
parse_bracket_content(text) ==
    LET content == trim(text)
        parts == split(content, ":")
        part(i) == IF Len(parts) >= i /\ parts[i] # <<>> THEN parse_i64(parts[i]) ELSE <<>>
    IN IF content = <<"*">> THEN [ok |-> TRUE, seg |-> Seg("Wildcard")]
       ELSE IF content # <<>> /\ Head(content) = "?"
       THEN [ok |-> TRUE, seg |-> [Seg("Filter") EXCEPT !.key = <<"d", "u", "m", "m", "y">>]]
       ELSE IF contains(content, ":")
       THEN [ok |-> TRUE,
             seg |-> [Seg("Slice") EXCEPT !.start = part(1), !.end = part(2), !.step = part(3)]]
       ELSE IF contains(content, ",")
       THEN [ok |-> TRUE, seg |-> [Seg("Union") EXCEPT !.segs = union_parts(split(content, ","))]]
       ELSE IF parse_i64(content) # <<>>
       THEN [ok |-> TRUE, seg |-> [Seg("Index") EXCEPT !.idx = parse_i64(content)[1]]]
       ELSE [ok |-> TRUE, seg |-> [Seg("Child") EXCEPT !.key = content]]

\* the loop of parse_bracket_expression: position is the index of the next
\* character, counted from 1
RECURSIVE bracket_loop(_, _, _, _)
bracket_loop(input, position, bracket_count, bracket_content) ==
    IF position <= Len(input) /\ bracket_count > 0
    THEN LET ch == input[position]
             count == IF ch = "[" THEN bracket_count + 1
                      ELSE IF ch = "]" THEN bracket_count - 1 ELSE bracket_count
         IN bracket_loop(input, position + 1, count,
                         IF count > 0 THEN Append(bracket_content, ch) ELSE bracket_content)
    ELSE [position |-> position, bracket_count |-> bracket_count,
          bracket_content |-> bracket_content]

\* PathParser::parse_bracket_expression(): position is at the [
parse_bracket_expression(input, position) ==
    IF position + 1 > Len(input)
    THEN [ok |-> FALSE, err |-> "ParseError", position |-> position + 1]
    ELSE LET l == bracket_loop(input, position + 1, 1, <<>>)
         IN IF l.bracket_count # 0
            THEN [ok |-> FALSE, err |-> "ParseError", position |-> l.position]
            ELSE [ok |-> TRUE, seg |-> parse_bracket_content(l.bracket_content).seg,
                  position |-> l.position]

\* PathParser::parse_identifier()
parse_identifier(input, position) ==
    LET stops == { i \in position..Len(input) : input[i] \in {".", "["} }
        stop == IF stops = {} THEN Len(input) + 1 ELSE Min(stops)
        identifier == SubSeq(input, position, stop - 1)
    IN IF identifier = <<"*">> THEN [ok |-> TRUE, seg |-> Seg("Wildcard"), position |-> stop]
       ELSE IF identifier = <<>> THEN [ok |-> FALSE, err |-> "ParseError", position |-> stop]
       ELSE [ok |-> TRUE, seg |-> [Seg("Child") EXCEPT !.key = identifier], position |-> stop]

\* the loop of PathParser::parse()
RECURSIVE parse_loop(_, _, _)
parse_loop(input, position, segments) ==
    IF position > Len(input) THEN [ok |-> TRUE, segments |-> segments]
    ELSE IF input[position] = "."
    THEN IF position + 1 <= Len(input) /\ input[position + 1] = "."
         THEN parse_loop(input, position + 2, Append(segments, Seg("RecursiveDescent")))
         ELSE parse_loop(input, position + 1, segments)
    ELSE LET r == IF input[position] = "[" THEN parse_bracket_expression(input, position)
                  ELSE parse_identifier(input, position)
         IN IF r.ok THEN parse_loop(input, r.position, Append(segments, r.seg))
            ELSE [ok |-> FALSE, err |-> r.err]

\* PathParser::parse(): a Result of a CompiledPath
parse(input) ==
    LET is_absolute == input # <<>> /\ Head(input) = "$"
        r == parse_loop(input, IF is_absolute THEN 2 ELSE 1, <<>>)
    IN IF r.ok
       THEN [ok |-> TRUE, val |-> [segments |-> r.segments, is_absolute |-> is_absolute]]
       ELSE r

\* JsonPathEngine::compile_path(path)
compile_path(path) ==
    IF path = <<>> THEN [ok |-> FALSE, err |-> "ParseError"] ELSE parse(path)

\* EvaluationResult
Result(value, path) == [value |-> value, path |-> path]

apply_child_access(input, key) ==
    IF input.value.kind = "Object" /\ \E i \in 1..Len(input.value.keys) : input.value.keys[i] = key
    THEN LET i == CHOOSE i \in 1..Len(input.value.keys) : input.value.keys[i] = key
         IN <<Result(input.value.items[i], input.path \o <<".">> \o key)>>
    ELSE <<>>

apply_index_access(input, idx) ==
    IF input.value.kind = "Array"
    THEN LET length == Len(input.value.items)
             index == IF idx < 0 THEN length + idx ELSE idx
         IN IF index >= 0 /\ index < length
            THEN <<Result(input.value.items[index + 1],
                          input.path \o <<"[">> \o format_int(idx) \o <<"]">>)>>
            ELSE <<>>
    ELSE <<>>

\* the while loop of apply_slice_access
RECURSIVE slice_loop(_, _, _, _, _, _)
slice_loop(input, step, end, i, index, outputs) ==
    LET length == Len(input.value.items)
    IN IF (step > 0 /\ i < end /\ i < length) \/ (step < 0 /\ i > end /\ i >= 0)
       THEN LET pushed == IF i >= 0 /\ i < length
                          THEN Append(outputs,
                                      Result(input.value.items[i + 1],
                                             input.path \o <<"[">> \o format_int(i) \o <<"]">>))
                          ELSE outputs
            IN IF index + 1 > length THEN pushed
               ELSE slice_loop(input, step, end, i + step, index + 1, pushed)
       ELSE outputs

\* apply_slice_access(input, start, end, step): a Result of the pushed outputs
apply_slice_access(input, start, end, step) ==
    IF input.value.kind = "Array"
    THEN LET length == Len(input.value.items)
             st == IF step = <<>> THEN 1 ELSE step[1]
         IN IF st = 0 THEN [ok |-> FALSE, err |-> "EvaluationError"]
            ELSE [ok |-> TRUE,
                  out |-> slice_loop(input, st,
                              IF end # <<>> THEN end[1] ELSE IF st > 0 THEN length ELSE -1,
                              IF start # <<>> THEN start[1]
                              ELSE IF st > 0 THEN 0 ELSE length - 1,
                              0, <<>>)]
    ELSE [ok |-> TRUE, out |-> <<>>]

\* the children of a value with their paths, as apply_wildcard pushes them
apply_wildcard(input) ==
    CASE input.value.kind = "Object" ->
            [i \in 1..Len(input.value.items) |->
                Result(input.value.items[i], input.path \o <<".">> \o input.value.keys[i])]
      [] input.value.kind = "Array" ->
            [i \in 1..Len(input.value.items) |->
                Result(input.value.items[i],
                       input.path \o <<"[">> \o format_int(i - 1) \o <<"]">>)]
      [] OTHER -> <<>>

\* while let Some(current) = queue.pop_front() { .. }
RECURSIVE descent_loop(_, _)
descent_loop(queue, outputs) ==
    IF queue = <<>> THEN outputs
    ELSE descent_loop(Tail(queue) \o apply_wildcard(Head(queue)), Append(outputs, Head(queue)))

\* apply_recursive_descent(input, outputs, context); context.depth is what it
\* was on entry when the call returns
apply_recursive_descent(input, config, depth) ==
    IF depth >= config.max_depth THEN [ok |-> FALSE, err |-> "RecursionLimit"]
    ELSE [ok |-> TRUE, out |-> descent_loop(<<input>>, <<>>)]

\* evaluate_filter for FilterExpression::Exists(field)
evaluate_filter(value, field) == value.kind = "Object" /\ contains(value.keys, field)

apply_filter(input, field) ==
    SelectSeq(apply_wildcard(input), LAMBDA r : evaluate_filter(r.value, field))

\* what apply_segment pushes for one input: a Result of outputs
RECURSIVE apply_one(_, _, _, _)
RECURSIVE apply_union(_, _, _, _)
apply_union(input, segs, config, depth) ==
    IF segs = <<>> THEN [ok |-> TRUE, out |-> <<>>]
    ELSE LET r == apply_one(input, Head(segs), config, depth)
         IN IF ~r.ok THEN r
            ELSE LET rest == apply_union(input, Tail(segs), config, depth)
                 IN IF rest.ok THEN [ok |-> TRUE, out |-> r.out \o rest.out] ELSE rest

apply_one(input, segment, config, depth) ==
    CASE segment.seg = "Root" -> [ok |-> TRUE, out |-> <<Result(input.value, <<"$">>)>>]
      [] segment.seg = "Current" -> [ok |-> TRUE, out |-> <<input>>]
      [] segment.seg = "Child" -> [ok |-> TRUE, out |-> apply_child_access(input, segment.key)]
      [] segment.seg = "Index" -> [ok |-> TRUE, out |-> apply_index_access(input, segment.idx)]
      [] segment.seg = "Slice" ->
            apply_slice_access(input, segment.start, segment.end, segment.step)
      [] segment.seg = "Wildcard" -> [ok |-> TRUE, out |-> apply_wildcard(input)]
      [] segment.seg = "RecursiveDescent" -> apply_recursive_descent(input, config, depth)
      [] segment.seg = "Filter" -> [ok |-> TRUE, out |-> apply_filter(input, segment.key)]
      [] OTHER -> apply_union(input, segment.segs, config, depth)

\* apply_segment(inputs, segment, context)
RECURSIVE apply_segment(_, _, _, _)
apply_segment(inputs, segment, config, depth) ==
    IF inputs = <<>> THEN [ok |-> TRUE, out |-> <<>>]
    ELSE LET r == apply_one(Head(inputs), segment, config, depth)
         IN IF ~r.ok THEN r
            ELSE LET rest == apply_segment(Tail(inputs), segment, config, depth)
                 IN IF rest.ok THEN [ok |-> TRUE, out |-> r.out \o rest.out] ELSE rest

\* the loop of evaluate_path over the segments
RECURSIVE evaluate_segments(_, _, _, _)
evaluate_segments(results, segments, config, depth) ==
    IF segments = <<>> THEN [ok |-> TRUE, out |-> results]
    ELSE LET r == apply_segment(results, Head(segments), config, depth)
         IN IF r.ok THEN evaluate_segments(r.out, Tail(segments), config, depth) ELSE r

\* evaluate_path(json, compiled, context) with EvaluationContext::new: depth 0
evaluate_path(json, compiled, config) ==
    evaluate_segments(<<Result(json, IF compiled.is_absolute THEN <<"$">> ELSE <<"@">>)>>,
                      compiled.segments, config, 0)

\* a query that keeps the compiled path only when the evaluation succeeded
json_query_keep_on_ok(e, json, path) ==
    LET hit == e.config.enable_caching /\ path \in DOMAIN e.compiled_cache
        c == IF hit THEN [ok |-> TRUE, val |-> e.compiled_cache[path]] ELSE compile_path(path)
    IN IF ~c.ok THEN [engine |-> e, res |-> [ok |-> FALSE, err |-> c.err]]
       ELSE LET r == evaluate_path(json, c.val, e.config)
            IN IF ~r.ok THEN [engine |-> e, res |-> [ok |-> FALSE, err |-> r.err]]
               ELSE [engine |-> IF e.config.enable_caching /\ ~hit
                                THEN [e EXCEPT !.compiled_cache = @ @@ (path :> c.val)] ELSE e,
                     res |-> [ok |-> TRUE,
                              values |-> [i \in 1..Len(r.out) |-> r.out[i].value],
                              paths |-> [i \in 1..Len(r.out) |-> r.out[i].path],
                              cache_hit |-> hit]]

\* JsonPathEngine::query(json, path): [engine, res]
json_query(e, json, path) ==
    LET hit == e.config.enable_caching /\ path \in DOMAIN e.compiled_cache
        c == IF hit THEN [ok |-> TRUE, val |-> e.compiled_cache[path]] ELSE compile_path(path)
    IN IF ~c.ok THEN [engine |-> e, res |-> [ok |-> FALSE, err |-> c.err]]
       ELSE LET e1 == IF e.config.enable_caching /\ ~hit
                      THEN [e EXCEPT !.compiled_cache = @ @@ (path :> c.val)] ELSE e
                r == evaluate_path(json, c.val, e.config)
            IN IF ~r.ok THEN [engine |-> e1, res |-> [ok |-> FALSE, err |-> r.err]]
               ELSE [engine |-> e1,
                     res |-> [ok |-> TRUE,
                              values |-> [i \in 1..Len(r.out) |-> r.out[i].value],
                              paths |-> [i \in 1..Len(r.out) |-> r.out[i].path],
                              cache_hit |-> hit]]

\* JsonPathEngine::clear_cache()
clear_cache(e) == [e EXCEPT !.compiled_cache = <<>>]

\* JsonPathEngine::cache_stats()
cache_stats(e) ==
    [size |-> Cardinality(DOMAIN e.compiled_cache), enabled |-> e.config.enable_caching]

\* no call on the JsonPathEngine is being looked at
JsonIdleCall ==
    [op |-> "idle", json |-> JNum(0), path |-> <<>>, res |-> [ok |-> TRUE],
     pre |-> JsonPathEngine_new, preSeen |-> [compiled |-> {}, answered |-> {}]]

\* the path strings that were compiled, and those that were answered with Ok,
\* since the engine was made or its cache was last cleared
NothingSeen == [compiled |-> {}, answered |-> {}]

(***************************************************************************)
(* UnificationEngine of pattern_matching.rs.  An expression is an          *)
(* ExprStructure as above.  A PatternStructure is a record [tag, name,     *)
(* arity, children, var]: var is the Variable [id, var_type] of a variable *)
(* pattern (its name is "var_<id>"), children the sub-patterns.  The       *)
(* Conditional patterns, which hold function pointers and which the parser *)
(* does not build, are left out.  A MatchingContext is the record of its   *)
(* depth, its variables (a function from Variables to expressions) and its *)
(* max_depth.                                                              *)
(***************************************************************************)
Pattern(kind) ==
    [tag |-> kind, name |-> <<>>, arity |-> 0, children |-> <<>>,
     var |-> [id |-> 0, var_type |-> "Expression"]]

Wildcard == Pattern("Wildcard")

PatternSymbol(s) == [Pattern("Symbol") EXCEPT !.name = s]

\* the pattern the parser builds for the id-th ? of a pattern string
PatternVariable(id) == [Pattern("Variable") EXCEPT !.var = [id |-> id, var_type |-> "Expression"]]

PatternCompound(ps) == [Pattern("Compound") EXCEPT !.arity = Len(ps), !.children = ps]

\* MatchingContext::new(max_depth)
MatchingContext_new(max_depth) == [depth |-> 0, variables |-> <<>>, max_depth |-> max_depth]

RECURSIVE expressions_equal(_, _)
expressions_equal(expr1, expr2) ==
    CASE expr1.tag = "Symbol" /\ expr2.tag = "Symbol" -> expr1.name = expr2.name
      [] expr1.tag = "Variable" /\ expr2.tag = "Variable" -> expr1.name = expr2.name
      [] expr1.tag = "Compound" /\ expr2.tag = "Compound" ->
            /\ expr1.arity = expr2.arity
            /\ Len(expr1.children) = Len(expr2.children)
            /\ \A i \in 1..Len(expr1.children) :
                  expressions_equal(expr1.children[i], expr2.children[i])
      [] OTHER -> FALSE

type_compatible(expr, var_type) ==
    \/ var_type = "Expression"
    \/ expr.tag = "Symbol" /\ var_type = "Symbol"
    \/ expr.tag = "Compound" /\ var_type = "Compound"

\* bind_variable(expr, var, context): [result, context]
bind_variable(expr, var, context) ==
    IF var \in DOMAIN context.variables
    THEN [result |-> expressions_equal(expr, context.variables[var]), context |-> context]
    ELSE IF type_compatible(expr, var.var_type)
    THEN [result |-> TRUE,
          context |-> [context EXCEPT !.variables = @ @@ (var :> expr)]]
    ELSE [result |-> FALSE, context |-> context]

\* a unification that does not look at the depth
RECURSIVE unify_recursive_unbounded(_, _, _)
RECURSIVE unify_all_unbounded(_, _, _)
unify_all_unbounded(exprs, patterns, context) ==
    IF exprs = <<>> \/ patterns = <<>> THEN [result |-> TRUE, context |-> context]
    ELSE LET r == unify_recursive_unbounded(Head(exprs), Head(patterns), context)
         IN IF r.result THEN unify_all_unbounded(Tail(exprs), Tail(patterns), r.context) ELSE r

unify_recursive_unbounded(expr, pattern, context) ==
    CASE pattern.tag = "Wildcard" -> [result |-> TRUE, context |-> context]
      [] pattern.tag = "Variable" -> bind_variable(expr, pattern.var, context)
      [] expr.tag = "Symbol" /\ pattern.tag = "Symbol" ->
            [result |-> expr.name = pattern.name, context |-> context]
      [] expr.tag = "Compound" /\ pattern.tag = "Compound" ->
            IF expr.arity = pattern.arity /\ Len(expr.children) = Len(pattern.children)
            THEN unify_all_unbounded(expr.children, pattern.children, context)
            ELSE [result |-> FALSE, context |-> context]
      [] OTHER -> [result |-> FALSE, context |-> context]

\* unify_recursive(expr, pattern, context): [result, context]; the depth of
\* the context is what it was on entry when the call returns.  unify_all is
\* c1.iter().zip(p2.iter()).all(..), unify_any is alternatives.iter().any(..)
RECURSIVE unify_recursive(_, _, _)
RECURSIVE unify_all(_, _, _)
RECURSIVE unify_any(_, _, _)
unify_all(exprs, patterns, context) ==
    IF exprs = <<>> \/ patterns = <<>> THEN [result |-> TRUE, context |-> context]
    ELSE LET r == unify_recursive(Head(exprs), Head(patterns), context)
         IN IF r.result THEN unify_all(Tail(exprs), Tail(patterns), r.context) ELSE r

unify_any(expr, alternatives, context) ==
    IF alternatives = <<>> THEN [result |-> FALSE, context |-> context]
    ELSE LET r == unify_recursive(expr, Head(alternatives), context)
         IN IF r.result THEN r ELSE unify_any(expr, Tail(alternatives), r.context)

unify_recursive(expr, pattern, context) ==
    IF context.depth >= context.max_depth THEN [result |-> FALSE, context |-> context]
    ELSE LET inner == [context EXCEPT !.depth = @ + 1]
             r == CASE pattern.tag = "Wildcard" -> [result |-> TRUE, context |-> inner]
                    [] pattern.tag = "Variable" -> bind_variable(expr, pattern.var, inner)
                    [] expr.tag = "Symbol" /\ pattern.tag = "Symbol" ->
                          [result |-> expr.name = pattern.name, context |-> inner]
                    [] expr.tag = "Compound" /\ pattern.tag = "Compound" ->
                          IF /\ expr.arity = pattern.arity
                             /\ Len(expr.children) = Len(pattern.children)
                          THEN unify_all(expr.children, pattern.children, inner)
                          ELSE [result |-> FALSE, context |-> inner]
                    [] pattern.tag = "Alternative" -> unify_any(expr, pattern.children, inner)
                    [] expr.tag = "Compound" /\ pattern.tag = "Sequence" ->
                          \* match_sequence with min_matches 0 and no max_matches
                          IF Len(pattern.children) # Len(expr.children)
                          THEN [result |-> FALSE, context |-> inner]
                          ELSE unify_all(expr.children, pattern.children, inner)
                    [] OTHER -> [result |-> FALSE, context |-> inner]
         IN [result |-> r.result, context |-> [r.context EXCEPT !.depth = @ - 1]]

\* UnificationEngine::unify(expr, pattern) of an engine with this config; a
\* compiled pattern is [id, structure, variables, constraints], and the
\* unification_cache, which nothing writes, is empty
unify(config, expr, pattern) ==
    LET r == unify_recursive(expr, pattern.structure, MatchingContext_new(config.max_depth))
        constraints_satisfied == pattern.constraints = <<>>
    IN [success |-> r.result /\ constraints_satisfied, bindings |-> r.context.variables,
        constraints_satisfied |-> constraints_satisfied]

\* UnificationEngine::find_matches(pattern, expressions): the Vec of (idx, result)
RECURSIVE unify_find_from(_, _, _, _)
unify_find_from(config, pattern, expressions, idx) ==
    IF idx >= Len(expressions) THEN <<>>
    ELSE LET result == unify(config, expressions[idx + 1], pattern)
         IN (IF result.success THEN << <<idx, result>> >> ELSE <<>>)
            \o unify_find_from(config, pattern, expressions, idx + 1)

unify_find_matches(config, pattern, expressions) ==
    unify_find_from(config, pattern, expressions, 0)

\* UnificationEngine::multi_pattern_match(patterns, expressions)
multi_pattern_match(config, patterns, expressions) ==
    [pattern_matches |->
         [pattern_idx \in 0..(Len(patterns) - 1) |->
             unify_find_matches(config, patterns[pattern_idx + 1], expressions)],
     total_patterns |-> Len(patterns), total_expressions |-> Len(expressions)]

\* what PatternParser::parse wraps the structure in
CompiledPattern(structure) ==
    [id |-> 1, structure |-> structure, variables |-> <<>>, constraints |-> <<>>]

(***************************************************************************)
(* The inputs the operations are followed with.                            *)
(***************************************************************************)
Sym(ch) == <<item_byte(SymbolSize(1)), ch>>

Pair(x, y) == <<item_byte(Arity(2))>> \o x \o y

E_a == Sym(97)

E_b == Sym(98)

E_c == Sym(99)

E_var == <<item_byte(NewVar)>>

E_ref == <<item_byte(VarRef(0))>>

E_ref2 == <<item_byte(VarRef(1))>>

E_nil == <<item_byte(Arity(0))>>

\* the expressions a load can bring into the Space
Universe == { Pair(E_a, E_nil), Pair(E_a, E_b), Pair(E_a, E_a), Pair(E_b, E_var), E_nil }

\* the pattern lists of queries and transforms
PatternLists ==
    { <<E_var>>, <<E_a>>, <<Pair(E_a, E_var)>>, <<Pair(E_var, E_ref)>>, <<Pair(E_var, E_a)>>,
      <<Pair(E_var, E_nil)>>, <<Pair(E_var, E_var)>>,
      <<Pair(E_a, E_var), Pair(E_b, E_ref)>> }

\* the template lists of transforms
TemplateLists ==
    { <<>>, <<E_c>>, <<Pair(E_c, E_ref)>>, <<E_c, Pair(E_c, E_ref)>>, <<E_ref, E_ref2>> }

\* the paths other passes ask permits for
PermitPaths == { <<>>, <<item_byte(Arity(2))>> \o E_a, E_c }

Impls == {"DefaultSpace", "grant"}

\* the number of NewVar of the patterns, the largest VarRef of the templates
NewVars(es) == Cardinality({ i \in 1..Len(Tokens(Flatten(es))) :
                                Tokens(Flatten(es))[i].t.tag = "NewVar" })

MaxRef(es) == LET ns == { Tokens(Flatten(es))[i].t.n + 1 :
                            i \in { j \in 1..Len(Tokens(Flatten(es))) :
                                      Tokens(Flatten(es))[j].t.tag = "VarRef" } }
              IN IF ns = {} THEN 0 ELSE CHOOSE n \in ns : \A o \in ns : o <= n

\* the templates refer to variables the patterns introduce
Closed(patterns, templates) == MaxRef(templates) <= NewVars(patterns)

(***************************************************************************)
(* The state machine.                                                      *)
(*   space    the paths of the trie                                        *)
(*   permits  the registry of live permits                                 *)
(*   RET      the thread-local error slot of query_multi_impl: "null", or  *)
(*            "freed" (still set, its allocation freed)                    *)
(*   lastOp   the last operation: what was asked, what it returned, and    *)
(*            what there was before it                                     *)
(***************************************************************************)
Op(name) ==
    [op |-> name, impl |-> "DefaultSpace", patterns |-> <<>>, templates |-> <<>>,
     abortAt |-> 0, path |-> <<>>, res |-> [ok |-> TRUE, val |-> 0], run |-> FALSE,
     calls |-> <<>>, stop |-> "run", out |-> <<>>, pre |-> space, prePermits |-> permits,
     peak |-> permits, preRET |-> RET]

\* the caller has looked at what the last operation returned
Ready == lastOp.op = "idle"

InitSpace ==
    /\ space = {}
    /\ permits = {}
    /\ RET = "null"
    /\ lastOp = [op |-> "idle", impl |-> "DefaultSpace", patterns |-> <<>>, templates |-> <<>>,
                 abortAt |-> 0, path |-> <<>>, res |-> [ok |-> TRUE, val |-> 0],
                 run |-> FALSE, calls |-> <<>>, stop |-> "run", out |-> <<>>, pre |-> {},
                 prePermits |-> {}, peak |-> {}, preRET |-> "null"]

InitMap ==
    /\ mapA = BytesTrieMap_new
    /\ mapB = BytesTrieMap_new
    /\ mapCall = [op |-> "idle", self |-> "a", key |-> <<>>, value |-> <<>>, ret |-> <<>>,
                  out |-> BytesTrieMap_new, preA |-> BytesTrieMap_new,
                  preB |-> BytesTrieMap_new]

InitExpr ==
    /\ engine = ExprQueryEngine_new
    /\ exprCall = [op |-> "idle", structure |-> AnyPattern, pattern |-> AnyPattern, id |-> 0,
                   matched_ids |-> <<>>, ret |-> <<>>, pre |-> ExprQueryEngine_new]

InitJson ==
    /\ jsonEngine = JsonPathEngine_new
    /\ jsonCall = JsonIdleCall
    /\ jsonSeen = NothingSeen

InitFn == fnCall = [op |-> "idle"]

Init == InitSpace /\ InitMap /\ InitExpr /\ InitJson /\ InitFn

\* another pass asks the DefaultSpace for a reader
NewReader(path) ==
    /\ Ready
    /\ UNCHANGED notSpaceVars
    /\ \E r \in {new_reader("DefaultSpace", permits, path, "caller")} :
          /\ Cardinality(permits) < MaxPermits
          /\ permits' = r.reg
          /\ lastOp' = [Op("new_reader") EXCEPT !.path = path, !.peak = r.reg,
                                                 !.res = [ok |-> r.ok, val |-> 0]]
          /\ UNCHANGED <<space, RET>>

\* another pass asks the DefaultSpace for a writer
NewWriter(path) ==
    /\ Ready
    /\ UNCHANGED notSpaceVars
    /\ \E r \in {new_writer("DefaultSpace", permits, path, "caller")} :
          /\ Cardinality(permits) < MaxPermits
          /\ permits' = r.reg
          /\ lastOp' = [Op("new_writer") EXCEPT !.path = path, !.peak = r.reg,
                                                 !.res = [ok |-> r.ok, val |-> 0]]
          /\ UNCHANGED <<space, RET>>

\* a pass drops a reader or a writer it holds
DropPermit(p) ==
    /\ Ready
    /\ UNCHANGED notSpaceVars
    /\ p \in permits
    /\ \A o \in permits : (o.kind = p.kind /\ o.path = p.path /\ o.owner = p.owner) => o.n <= p.n
    /\ permits' = permits \ {p}
    /\ lastOp' = [Op("drop") EXCEPT !.path = p.path, !.peak = permits]
    /\ UNCHANGED <<space, RET>>

\* Space::load_sexpr_old(src_data, dst) by the pass that holds the writer of
\* the root: dst.graft_map(submap)
LoadSexprOld(data) ==
    /\ Ready
    /\ UNCHANGED notSpaceVars
    /\ \E w \in permits : w.kind = "w" /\ w.owner = "caller" /\ w.path = <<>>
    /\ space' = graft(space, <<>>, data)
    /\ lastOp' = [Op("load_sexpr_old") EXCEPT !.res = [ok |-> TRUE, val |-> Cardinality(data)]]
    /\ UNCHANGED <<permits, RET>>

\* query_multi_impl with the reader_hook of the DefaultSpace and an effect
\* that returns Err at its abortAt-th invocation
Query(patterns, abortAt) ==
    /\ Ready
    /\ UNCHANGED notSpaceVars
    /\ \E q \in {query_multi_impl(space, permits, RET, patterns, "DefaultSpace", abortAt)} :
          \E res \in ReadRET(q) :
             /\ space' = q.S
             /\ permits' = drop(q.reg, {"hook", "cursor"})
             /\ RET' = AfterRET(q)
             /\ lastOp' = [Op("query") EXCEPT !.patterns = patterns, !.abortAt = abortAt,
                                              !.res = res, !.run = q.run,
                                              !.calls = q.calls, !.stop = q.stop,
                                              !.peak = q.peak]

\* Space::dump_as_sexpr(writer, pattern, template, auth) of the DefaultSpace;
\* the writer fails at its abortAt-th line
DumpAsSexpr(pattern, template, abortAt) ==
    /\ Ready
    /\ UNCHANGED notSpaceVars
    /\ \E q \in {query_multi_impl(space, permits, RET, <<pattern>>, "DefaultSpace", abortAt)} :
          \E res \in ReadRET(q), n \in {IF q.stop = "abort" THEN Len(q.calls) - 1 ELSE Len(q.calls)} :
             /\ space' = q.S
             /\ permits' = drop(q.reg, {"hook", "cursor"})
             /\ RET' = AfterRET(q)
             /\ lastOp' = [Op("dump_as_sexpr") EXCEPT
                               !.patterns = <<pattern>>, !.templates = <<template>>,
                               !.abortAt = abortAt, !.res = res, !.run = q.run,
                               !.calls = q.calls, !.stop = q.stop, !.peak = q.peak,
                               !.out = [j \in 1..n |-> substitute(template, RefsOf(q.calls[j]))]]

\* Space::transform_multi_multi(patterns, templates, auth)
Transform(impl, patterns, templates) ==
    /\ Ready
    /\ UNCHANGED notSpaceVars
    /\ \E t \in {transform_multi_multi_impl(space, permits, RET, patterns, templates, impl)} :
          \E res \in ReadRET(t.q) :
             /\ Cardinality(t.S) <= MaxPaths
             /\ space' = t.S
             /\ permits' = drop(t.q.reg, {"hook", "cursor"})
             /\ RET' = AfterRET(t.q)
             /\ lastOp' = [Op("transform_multi_multi") EXCEPT
                               !.impl = impl, !.patterns = patterns, !.templates = templates,
                               !.res = res, !.run = t.q.run, !.calls = t.q.calls,
                               !.stop = t.q.stop, !.peak = t.peak]

\* Space::load_sexpr(src_data, pattern, template, auth)
LoadSexpr(impl, items, pattern, template) ==
    /\ Ready
    /\ UNCHANGED notSpaceVars
    /\ \E l \in {load_impl(space, permits, items, pattern, template, impl)} :
          /\ Cardinality(l.S) <= MaxPaths
          /\ space' = l.S
          /\ permits' = drop(l.peak, {"hook", "cursor"})
          /\ lastOp' = [Op("load_sexpr") EXCEPT
                            !.impl = impl, !.patterns = <<pattern>>, !.templates = <<template>>,
                            !.res = l.res, !.out = items, !.peak = l.peak]
          /\ UNCHANGED RET

\* Space::load_csv(src_data, pattern, template, auth)
LoadCsv(impl, rows, pattern, template) ==
    /\ Ready
    /\ UNCHANGED notSpaceVars
    /\ \E l \in {load_impl(space, permits, [i \in 1..Len(rows) |-> csv_row(rows[i])],
                            pattern, template, impl)} :
          /\ Cardinality(l.S) <= MaxPaths
          /\ space' = l.S
          /\ permits' = drop(l.peak, {"hook", "cursor"})
          /\ lastOp' = [Op("load_csv") EXCEPT
                            !.impl = impl, !.patterns = <<pattern>>, !.templates = <<template>>,
                            !.res = l.res, !.out = rows, !.peak = l.peak]
          /\ UNCHANGED RET

\* the inputs of the loaders
SexprInputs == { <<E_a>>, <<Pair(E_a, E_b), <<>>, E_a>> }

CsvInputs == { << <<<<97>>, <<98>>>> >> }

LoadTemplates == { E_ref, Pair(E_c, E_ref) }

DumpPatterns == { E_var, Pair(E_a, E_var) }

\* the caller looks at what the operation returned
Idle ==
    /\ ~Ready
    /\ lastOp' = Op("idle")
    /\ UNCHANGED <<space, permits, RET, notSpaceVars>>

Next ==
    \/ Idle
    \/ \E path \in PermitPaths : NewReader(path)
    \/ \E path \in PermitPaths : NewWriter(path)
    \/ \E p \in permits : DropPermit(p)
    \/ \E data \in { d \in SUBSET Universe : Cardinality(d) <= MaxPaths } : LoadSexprOld(data)
    \/ \E patterns \in PatternLists, abortAt \in 0..MaxAbort : Query(patterns, abortAt)
    \/ \E pattern \in DumpPatterns, abortAt \in 0..1 : DumpAsSexpr(pattern, E_ref, abortAt)
    \/ \E impl \in Impls, patterns \in PatternLists :
          \E templates \in { ts \in TemplateLists : Closed(patterns, ts) } :
             Transform(impl, patterns, templates)
    \/ \E impl \in Impls, items \in SexprInputs, template \in LoadTemplates :
          LoadSexpr(impl, items, E_var, template)
    \/ \E impl \in Impls, rows \in CsvInputs, template \in LoadTemplates :
          LoadCsv(impl, rows, E_var, template)

Spec == Init /\ [][Next]_vars

(***************************************************************************)
(* The calls on two BytesTrieMaps, trie1 (mapA) and trie2 (mapB).          *)
(*   mapCall  the last call: its receiver and arguments, what it returned  *)
(*            (ret: an Option, out: the map a relational operation built)  *)
(*            and the two maps as they were before it                      *)
(***************************************************************************)
\* the keys of the calls: the empty key, a key, an extension of it, another
Keys == { <<>>, <<97>>, <<97, 98>>, <<98>> }

\* the values inserted into trie1 and into trie2
ValuesA == {1, 2}

ValuesB == {3}

MapCall(name) ==
    [op |-> name, self |-> "a", key |-> <<>>, value |-> <<>>, ret |-> <<>>,
     out |-> BytesTrieMap_new, preA |-> mapA, preB |-> mapB]

MapReady == mapCall.op = "idle"

\* trie.insert(key, value)
MapInsert(m, key, value) ==
    /\ MapReady
    /\ \E r \in {insert(IF m = "a" THEN mapA ELSE mapB, key, value)} :
          /\ mapA' = IF m = "a" THEN r.map ELSE mapA
          /\ mapB' = IF m = "b" THEN r.map ELSE mapB
          /\ mapCall' = [MapCall("insert") EXCEPT !.self = m, !.key = key,
                                                  !.value = <<value>>, !.ret = r.ret]
    /\ UNCHANGED notMapVars

\* trie.remove(&key)
MapRemove(m, key) ==
    /\ MapReady
    /\ \E r \in {remove(IF m = "a" THEN mapA ELSE mapB, key)} :
          /\ mapA' = IF m = "a" THEN r.map ELSE mapA
          /\ mapB' = IF m = "b" THEN r.map ELSE mapB
          /\ mapCall' = [MapCall("remove") EXCEPT !.self = m, !.key = key, !.ret = r.ret]
    /\ UNCHANGED notMapVars

\* trie1.union(&trie2)
MapUnion ==
    /\ MapReady
    /\ mapCall' = [MapCall("union") EXCEPT !.out = union(mapA, mapB)]
    /\ UNCHANGED <<mapA, mapB, notMapVars>>

\* trie1.intersection(&trie2)
MapIntersection ==
    /\ MapReady
    /\ mapCall' = [MapCall("intersection") EXCEPT !.out = intersection(mapA, mapB)]
    /\ UNCHANGED <<mapA, mapB, notMapVars>>

\* trie1.difference(&trie2)
MapDifference ==
    /\ MapReady
    /\ mapCall' = [MapCall("difference") EXCEPT !.out = difference(mapA, mapB)]
    /\ UNCHANGED <<mapA, mapB, notMapVars>>

\* trie1 = result: the map a relational operation returned is the one that
\* is worked on from now on
MapKeep ==
    /\ mapCall.op \in {"union", "intersection", "difference"}
    /\ mapA' = mapCall.out
    /\ mapCall' = [MapCall("idle") EXCEPT !.preA = BytesTrieMap_new, !.preB = BytesTrieMap_new]
    /\ UNCHANGED <<mapB, notMapVars>>

\* the caller has looked at what the call returned
MapIdle ==
    /\ ~MapReady
    /\ mapCall' = [MapCall("idle") EXCEPT !.preA = BytesTrieMap_new, !.preB = BytesTrieMap_new]
    /\ UNCHANGED <<mapA, mapB, notMapVars>>

NextMap ==
    \/ MapIdle
    \/ MapKeep
    \/ \E key \in Keys, value \in ValuesA : MapInsert("a", key, value)
    \/ \E key \in Keys, value \in ValuesB : MapInsert("b", key, value)
    \/ \E m \in {"a", "b"}, key \in Keys : MapRemove(m, key)
    \/ MapUnion
    \/ MapIntersection
    \/ MapDifference

SpecMap == Init /\ [][NextMap]_vars

(***************************************************************************)
(* The calls on an ExprQueryEngine.                                        *)
(*   exprCall  the last call: its arguments, what it returned, and the     *)
(*             engine as it was before it                                  *)
(***************************************************************************)
Sym_a == Symbol(<<97>>)

Sym_b == Symbol(<<98>>)

Var_x == Variable(<<120>>)

\* the expressions that are inserted: a, $x, (a $x), (a a), ((a b) b)
Structures ==
    { Sym_a, Var_x, Compound(2, <<Sym_a, Var_x>>), Compound(2, <<Sym_a, Sym_a>>),
      Compound(2, <<Compound(2, <<Sym_a, Sym_b>>), Sym_b>>) }

\* the patterns that are asked for
Patterns ==
    { AnyPattern, Sym_a, Var_x, Compound(2, <<Sym_a, AnyPattern>>), Compound(2, <<AnyPattern, AnyPattern>>),
      Compound(2, <<AnyPattern, Sym_b>>) }

ExprCall(name) ==
    [op |-> name, structure |-> AnyPattern, pattern |-> AnyPattern, id |-> 0, matched_ids |-> <<>>,
     ret |-> <<>>, pre |-> engine]

ExprReady == exprCall.op = "idle"

\* engine.insert(structure)
ExprInsert(structure) ==
    /\ ExprReady
    /\ engine.next_id <= MaxExprs
    /\ \E r \in {expr_insert(engine, structure)} :
          /\ engine' = r.engine
          /\ exprCall' = [ExprCall("insert") EXCEPT !.structure = structure, !.id = r.id]
    /\ UNCHANGED notExprVars

\* engine.remove(id)
ExprRemove(id) ==
    /\ ExprReady
    /\ \E r \in {expr_remove(engine, id)} :
          /\ engine' = r.engine
          /\ exprCall' = [ExprCall("remove") EXCEPT !.id = id, !.ret = r.ret]
    /\ UNCHANGED notExprVars

\* engine.query(&pattern)
ExprQuery(pattern) ==
    /\ ExprReady
    /\ exprCall' = [ExprCall("query") EXCEPT !.pattern = pattern,
                                             !.matched_ids = expr_query(engine, pattern)]
    /\ UNCHANGED <<engine, notExprVars>>

\* the caller has looked at what the call returned
ExprIdle ==
    /\ ~ExprReady
    /\ exprCall' = [ExprCall("idle") EXCEPT !.pre = ExprQueryEngine_new]
    /\ UNCHANGED <<engine, notExprVars>>

NextExpr ==
    \/ ExprIdle
    \/ \E structure \in Structures : ExprInsert(structure)
    \/ \E id \in 1..MaxExprs : ExprRemove(id)
    \/ \E pattern \in Patterns : ExprQuery(pattern)

SpecExpr == Init /\ [][NextExpr]_vars

(***************************************************************************)
(* The calls on a JsonPathEngine.                                          *)
(*   jsonCall  the last call: its arguments, its result, and the engine    *)
(*             and the history as they were before it                      *)
(***************************************************************************)
\* 1, [1, 2], [[[1]]], {"a": [1, 2]}
JsonValues ==
    { JNum(1), JArr(<<JNum(1), JNum(2)>>), JArr(<<JArr(<<JArr(<<JNum(1)>>)>>)>>),
      JObj(<< <<"a">> >>, <<JArr(<<JNum(1), JNum(2)>>)>>) }

\* "", "$[", "$[::0]", "$..", "$.a", "$[0:2]"
PathStrings ==
    { <<>>, <<"$", "[">>, <<"$", "[", ":", ":", "0", "]">>, <<"$", ".", ".">>,
      <<"$", ".", "a">>, <<"$", "[", "0", ":", "2", "]">> }

\* the values of max_depth an engine is made with
MaxDepths == {0, 1, 2, 100}

JsonReady == jsonCall.op = "idle"

\* JsonPathEngine::with_config(JsonPathConfig { max_depth, enable_caching, .. })
JsonWithConfig(max_depth, enable_caching) ==
    /\ JsonReady
    /\ jsonEngine' = with_config([JsonPathConfig_default EXCEPT
                                     !.max_depth = max_depth,
                                     !.enable_caching = enable_caching])
    /\ jsonSeen' = NothingSeen
    /\ jsonCall' = [JsonIdleCall EXCEPT !.op = "with_config", !.pre = jsonEngine,
                                        !.preSeen = jsonSeen]
    /\ UNCHANGED notJsonVars

\* engine.query(&json, path)
JsonQuery(json, path) ==
    /\ JsonReady
    /\ \E r \in {json_query(jsonEngine, json, path)} :
          /\ jsonEngine' = r.engine
          /\ jsonCall' = [op |-> "query", json |-> json, path |-> path, res |-> r.res,
                          pre |-> jsonEngine, preSeen |-> jsonSeen]
          /\ jsonSeen' = [compiled |-> jsonSeen.compiled
                                         \cup (IF compile_path(path).ok THEN {path} ELSE {}),
                          answered |-> jsonSeen.answered
                                         \cup (IF r.res.ok THEN {path} ELSE {})]
    /\ UNCHANGED notJsonVars

\* engine.clear_cache()
JsonClearCache ==
    /\ JsonReady
    /\ jsonEngine' = clear_cache(jsonEngine)
    /\ jsonSeen' = NothingSeen
    /\ jsonCall' = [JsonIdleCall EXCEPT !.op = "clear_cache", !.pre = jsonEngine,
                                        !.preSeen = jsonSeen]
    /\ UNCHANGED notJsonVars

\* the caller has looked at what the call returned
JsonIdle ==
    /\ ~JsonReady
    /\ jsonCall' = JsonIdleCall
    /\ UNCHANGED <<jsonEngine, jsonSeen, notJsonVars>>

NextJson ==
    \/ JsonIdle
    \/ \E max_depth \in MaxDepths, enable_caching \in BOOLEAN :
          JsonWithConfig(max_depth, enable_caching)
    \/ \E json \in JsonValues, path \in PathStrings : JsonQuery(json, path)
    \/ JsonClearCache

SpecJson == Init /\ [][NextJson]_vars

(***************************************************************************)
(* The functions that have no state, each applied to inputs that the       *)
(* initial state draws.                                                    *)
(*   fnCall  the inputs, and after the call the result with them           *)
(***************************************************************************)
InitOthers == InitSpace /\ InitMap /\ InitExpr /\ InitJson

\* the array [1, 2, .., n]
ArrayOfLen(n) == JArr([i \in 1..n |-> JNum(i)])

SliceBounds == {<<>>} \cup { <<i>> : i \in (0 - MaxSliceIndex)..MaxSliceIndex }

SliceSteps == { <<>>, <<0 - 1>>, <<0>>, <<1>>, <<2>>, <<3>> }

InitSlice ==
    /\ InitOthers
    /\ fnCall \in [op : {"input"}, arr : { ArrayOfLen(n) : n \in 0..MaxArrayLen },
                   start : SliceBounds, end : SliceBounds, step : SliceSteps,
                   res : {[ok |-> TRUE, out |-> <<>>]}]

\* apply_slice_access(&input, start, end, step, &mut outputs) on empty outputs
ApplySlice ==
    /\ fnCall.op = "input"
    /\ fnCall' = [fnCall EXCEPT
                     !.op = "apply_slice_access",
                     !.res = apply_slice_access(Result(fnCall.arr, <<"$">>), fnCall.start,
                                                fnCall.end, fnCall.step)]
    /\ UNCHANGED notFnVars

NextSlice == ApplySlice

SpecSlice == InitSlice /\ [][NextSlice]_vars

\* the expressions a, b, $x, (a b), (a (a b))
UnifyExprs ==
    { Sym_a, Sym_b, Var_x, Compound(2, <<Sym_a, Sym_b>>),
      Compound(2, <<Sym_a, Compound(2, <<Sym_a, Sym_b>>)>>) }

\* what the pattern strings *, ?, a, (a ?), (a *), (a (a ?)) and (? ?) compile to
UnifyPatterns ==
    { CompiledPattern(Wildcard), CompiledPattern(PatternVariable(1)),
      CompiledPattern(PatternSymbol(<<97>>)),
      CompiledPattern(PatternCompound(<<PatternSymbol(<<97>>), PatternVariable(1)>>)),
      CompiledPattern(PatternCompound(<<PatternSymbol(<<97>>), Wildcard>>)),
      CompiledPattern(PatternCompound(
          <<PatternSymbol(<<97>>),
            PatternCompound(<<PatternSymbol(<<97>>), PatternVariable(1)>>)>>)),
      CompiledPattern(PatternCompound(<<PatternVariable(1), PatternVariable(2)>>)) }

\* the values of max_depth an engine is made with; 100 is the default
UnifyDepths == {1, 2, 3, 100}

InitUnify ==
    /\ InitOthers
    /\ fnCall \in [op : {"input"},
                   config : { [max_depth |-> d, occurs_check |-> TRUE, enable_caching |-> TRUE,
                               max_variables |-> 1000] : d \in UnifyDepths },
                   patterns : UNION { [1..n -> UnifyPatterns] : n \in 1..2 },
                   expressions : UNION { [1..n -> UnifyExprs] : n \in 0..MaxExprList },
                   res : {<<>>}]

\* engine.find_matches(&patterns[0], &expressions)
ApplyFindMatches ==
    /\ fnCall.op = "input"
    /\ fnCall' = [fnCall EXCEPT
                     !.op = "find_matches",
                     !.res = unify_find_matches(fnCall.config, fnCall.patterns[1],
                                                fnCall.expressions)]
    /\ UNCHANGED notFnVars

\* engine.multi_pattern_match(&patterns, &expressions)
ApplyMultiPatternMatch ==
    /\ fnCall.op = "input"
    /\ fnCall' = [fnCall EXCEPT
                     !.op = "multi_pattern_match",
                     !.res = multi_pattern_match(fnCall.config, fnCall.patterns,
                                                 fnCall.expressions)]
    /\ UNCHANGED notFnVars

NextUnify == ApplyFindMatches \/ ApplyMultiPatternMatch

SpecUnify == InitUnify /\ [][NextUnify]_vars

(***************************************************************************)
(* The properties.                                                         *)
(***************************************************************************)
Engine == {"query", "dump_as_sexpr", "transform_multi_multi"}

CallPaths == { lastOp.calls[i].path : i \in 1..Len(lastOp.calls) }

HasVar(e) == \E k \in 1..Len(Tokens(e)) : Tokens(e)[k].t.tag \in {"NewVar", "VarRef"}

\* the tokens the stack is compiled from: those of every pattern after its prefix
PatternTokens(patterns) ==
    Flatten([i \in 1..Len(patterns) |-> TokensFrom(patterns[i], Len(prefix(patterns[i])) + 1)])

\* the byte offset of path each of the tokens from the k-th on stands at: a
\* variable stands for one sub-expression, a symbol or an arity for one token
RECURSIVE PlacesFrom(_, _, _, _)
PlacesFrom(toks, k, path, off) ==
    IF k > Len(toks) THEN <<>>
    ELSE <<off>> \o PlacesFrom(toks, k + 1, path,
                               IF toks[k].t.tag \in {"NewVar", "VarRef"}
                               THEN off + Len(SubExprAt(path, off))
                               ELSE IF off < Len(path) THEN off + TokLen(path[off + 1])
                               ELSE off + 1)

\* for every VarRef of the patterns: the sub-expression captured for its
\* NewVar and the sub-expression at the VarRef's place, on the path of a call
RefPairs(patterns, call) ==
    LET toks == PatternTokens(patterns)
        places == PlacesFrom(toks, 1, call.path, Len(prefix(patterns[1])))
    IN { <<SubExprAt(call.path, call.refs[toks[k].t.n + 1]), SubExprAt(call.path, places[k])>> :
           k \in { j \in 1..Len(toks) : toks[j].t.tag = "VarRef" /\ toks[j].t.n < Len(call.refs) } }

NoOverlapWithWriter(reg) ==
    \A w \in reg : \A p \in reg : (w.kind = "w" /\ p # w) => ~Overlap(w.path, p.path)

\* C1: a query with a single pattern that runs to its end invokes the action
\* exactly once for each path of the Space that matches the pattern (symbols
\* and arities equal, every VarRef holding the bytes captured for its NewVar)
\* and for no other path
C1_QueryExactlyTheMatches ==
    (/\ lastOp.op = "query"
     /\ Len(lastOp.patterns) = 1
     /\ lastOp.run
     /\ lastOp.abortAt = 0
     /\ lastOp.stop = "run")
    => /\ \A i, j \in 1..Len(lastOp.calls) :
             lastOp.calls[i].path = lastOp.calls[j].path => i = j
       /\ CallPaths = { p \in lastOp.pre : Match(lastOp.patterns, p).ok }

C3_TransformAddsInstantiations ==
    (/\ lastOp.op = "transform_multi_multi"
     /\ Len(lastOp.patterns) = 1
     /\ lastOp.res.ok)
    => space = lastOp.pre \cup
               { substitute(lastOp.templates[i], Match(lastOp.patterns, p).refs) :
                   i \in 1..Len(lastOp.templates),
                   p \in { m \in lastOp.pre : Match(lastOp.patterns, m).ok } }

\* C4: no write permit is ever live together with another permit at an equal,
\* shorter or longer path, at the end of an operation as in the middle of
\* it, and new_writer is refused where it would bring that about
C4_WriterExcludesOverlap ==
    /\ NoOverlapWithWriter(permits)
    /\ NoOverlapWithWriter(lastOp.peak)
    /\ (/\ lastOp.op = "new_writer"
        /\ \E p \in lastOp.prePermits : Overlap(p.path, lastOp.path))
       => (~lastOp.res.ok /\ permits = lastOp.prePermits)

\* new_writer has been refused at a path a live reader overlaps
C4_Witness ==
    /\ lastOp.op = "new_writer"
    /\ ~lastOp.res.ok
    /\ \E p \in permits : p.kind = "r" /\ p.path # lastOp.path /\ Overlap(p.path, lastOp.path)

\* C5: new_reader is granted exactly when no live write permit is at an
\* equal, shorter or longer path, however many read permits are live there,
\* and the grant is one more live read permit at the path
C5_ReaderSharesWithReaders ==
    lastOp.op = "new_reader"
    => /\ lastOp.res.ok <=> ~\E w \in lastOp.prePermits :
                                w.kind = "w" /\ Overlap(w.path, lastOp.path)
       /\ lastOp.res.ok
          => /\ lastOp.prePermits \subseteq permits
             /\ \E p \in permits \ lastOp.prePermits :
                   /\ permits = lastOp.prePermits \cup {p}
                   /\ p.kind = "r"
                   /\ p.path = lastOp.path
       /\ ~lastOp.res.ok => permits = lastOp.prePermits

\* new_reader has been granted at a path where a reader was live already
C5_Witness ==
    /\ lastOp.op = "new_reader"
    /\ lastOp.res.ok
    /\ \E p \in lastOp.prePermits : p.kind = "r" /\ p.path = lastOp.path

\* C6: when load_sexpr, load_csv, dump_as_sexpr or transform_multi_multi has
\* returned, with Ok or with an error, the live permits are those that were
\* live before it: what its hooks and its cursors took is released
C6_PermitsReleased ==
    lastOp.op \in {"load_sexpr", "load_csv", "dump_as_sexpr", "transform_multi_multi"}
    => permits = lastOp.prePermits

\* dump_as_sexpr has returned Ok while a reader of another pass is live; it
\* had taken permits of its own
C6_Witness ==
    /\ lastOp.op = "dump_as_sexpr"
    /\ lastOp.res.ok
    /\ lastOp.prePermits # {}
    /\ lastOp.peak # lastOp.prePermits
    /\ lastOp.calls # <<>>

\* C7: when transform_multi_multi returns a path conflict or a permission
\* error the Space holds what it held before the call
C7_ErrorLeavesSpace ==
    (/\ lastOp.op = "transform_multi_multi"
     /\ ~lastOp.res.ok
     /\ lastOp.res.val \in {"conflict", "hook"})
    => space = lastOp.pre

\* C8: on a DefaultSpace with no live permit, load_sexpr and load_csv of
\* well-formed input and transform_multi_multi with template prefixes that
\* overlap neither each other nor a pattern prefix return Ok
C8_OwnHookDoesNotConflict ==
    (/\ lastOp.op \in {"load_sexpr", "load_csv", "transform_multi_multi"}
     /\ lastOp.impl = "DefaultSpace"
     /\ lastOp.prePermits = {}
     /\ \A i \in 1..Len(lastOp.out) : lastOp.out[i] # <<>>
     /\ lastOp.op = "transform_multi_multi"
        => /\ \A i, j \in 1..Len(lastOp.templates) :
                 i # j => ~Overlap(prefix(lastOp.templates[i]), prefix(lastOp.templates[j]))
           /\ \A i \in 1..Len(lastOp.templates), j \in 1..Len(lastOp.patterns) :
                 ~Overlap(prefix(lastOp.templates[i]), prefix(lastOp.patterns[j])))
    => lastOp.res.ok

\* C9: when the action returns an error at a match it is not invoked again
\* and query_multi_impl returns that error; when it never does,
\* query_multi_impl returns Ok with the number of invocations
C9_AbortReturnsTheError ==
    (lastOp.op = "query" /\ lastOp.run /\ lastOp.stop \in {"run", "abort"})
    => IF lastOp.stop = "abort"
       THEN /\ Len(lastOp.calls) = lastOp.abortAt
            /\ lastOp.res = [ok |-> FALSE, val |-> "effect"]
       ELSE lastOp.res = [ok |-> TRUE, val |-> Len(lastOp.calls)]

\* C10: a query leaves the Space as it was, run to its end or aborted at a
\* match, and so does an operation that ends before a template has been
\* written
C10_QueryLeavesSpace ==
    /\ lastOp.op \in {"query", "dump_as_sexpr"} => space = lastOp.pre
    /\ (lastOp.op = "transform_multi_multi" /\ lastOp.calls = <<>>) => space = lastOp.pre

\* a query over two patterns has been aborted at its first match
C10_Witness ==
    /\ lastOp.op = "query"
    /\ Len(lastOp.patterns) = 2
    /\ lastOp.stop = "abort"
    /\ Len(lastOp.calls) = 1
    /\ space # {}

\* a is before b in the byte-lexicographic order of paths
LexLess(a, b) ==
    \E k \in 1..Len(b) :
       /\ \A i \in 1..(k - 1) : i <= Len(a) /\ a[i] = b[i]
       /\ (k > Len(a) \/ a[k] < b[k])

\* C11: within one query the action is invoked on the matching paths in
\* ascending byte-lexicographic order of the paths: a path that begins with an
\* Arity byte before one that begins with a variable byte, before one that
\* begins with a SymbolSize byte
C11_AscendingOrder ==
    (lastOp.op = "query" /\ lastOp.run)
    => \A i, j \in 1..Len(lastOp.calls) :
          i < j => LexLess(lastOp.calls[i].path, lastOp.calls[j].path)

\* C12: a query with the single pattern `$` that runs to its end invokes the
\* action exactly once for every path of the Space, whatever its first tag,
\* the empty compound Arity(0) included, with one reference that covers the
\* whole path
C12_NewVarMatchesEveryPath ==
    (/\ lastOp.op = "query"
     /\ lastOp.patterns = <<E_var>>
     /\ lastOp.run
     /\ lastOp.abortAt = 0
     /\ lastOp.stop = "run")
    => /\ CallPaths = lastOp.pre
       /\ \A i, j \in 1..Len(lastOp.calls) :
             lastOp.calls[i].path = lastOp.calls[j].path => i = j
       /\ \A i \in 1..Len(lastOp.calls) :
             /\ Len(lastOp.calls[i].refs) = 1
             /\ SubExprAt(lastOp.calls[i].path, lastOp.calls[i].refs[1]) = lastOp.calls[i].path

\* the bytes the paths of the calls hold where the patterns hold Arity(0)
BytesAtEmptyCompound ==
    LET toks == PatternTokens(lastOp.patterns)
    IN { LET path == lastOp.calls[i].path
             places == PlacesFrom(toks, 1, path, Len(prefix(lastOp.patterns[1])))
         IN IF places[k] < Len(path) THEN path[places[k] + 1] ELSE -1 :
           i \in 1..Len(lastOp.calls),
           k \in { j \in 1..Len(toks) : toks[j].t = Arity(0) } }

CallTuples ==
    { LET e1 == SubExprAt(p, 0)
      IN <<e1, prefix(lastOp.patterns[2]) \o SubSeq(p, Len(e1) + 1, Len(p))>> : p \in CallPaths }

\* C14: a query over two patterns that runs to its end invokes the action
\* exactly once for every pair (e1, e2) of paths of the Space in which e1
\* matches the first and e2 the second pattern under the shared bindings, and
\* for no other pair, also when the two patterns have different prefixes
C14_JoinOverSpacePaths ==
    (/\ lastOp.op = "query"
     /\ Len(lastOp.patterns) = 2
     /\ lastOp.run
     /\ lastOp.abortAt = 0
     /\ lastOp.stop = "run")
    => /\ \A i, j \in 1..Len(lastOp.calls) :
             lastOp.calls[i].path = lastOp.calls[j].path => i = j
       /\ CallTuples = { t \in lastOp.pre \X lastOp.pre :
                           Match(lastOp.patterns, t[1] \o t[2]).ok }

\* C15: transform_multi_multi with one pattern and several templates, called
\* with granting hooks while no other pass holds a permit and no earlier
\* query was aborted, leaves in the Space every path it held and, for every
\* match and every template, the instantiation of the template, also when
\* two templates have the same prefix or a template's prefix overlaps the
\* pattern's
C15_EveryTemplateWritten ==
    (/\ lastOp.op = "transform_multi_multi"
     /\ lastOp.impl = "grant"
     /\ Len(lastOp.patterns) = 1
     /\ Len(lastOp.templates) >= 2
     /\ lastOp.prePermits = {}
     /\ lastOp.preRET = "null")
    => /\ lastOp.pre \subseteq space
       /\ \A p \in { m \in lastOp.pre : Match(lastOp.patterns, m).ok } :
             \A i \in 1..Len(lastOp.templates) :
                substitute(lastOp.templates[i], Match(lastOp.patterns, p).refs) \in space

\* the expressions of the input of the last load that stand before its first
\* parse error
BeforeError ==
    LET bad == { j \in 1..Len(lastOp.out) : lastOp.out[j] = <<>> }
        first == IF bad = {} THEN Len(lastOp.out) + 1 ELSE CHOOSE j \in bad : \A o \in bad : j <= o
    IN { lastOp.out[j] : j \in 1..(first - 1) }

\* C16: when load_sexpr meets a parse error after it has inserted some
\* expressions, what it returns holds the error and the number of the records
\* inserted before it, and those records are in the Space
C16_PartialCountWithError ==
    (/\ lastOp.op = "load_sexpr"
     /\ ~lastOp.res.ok
     /\ lastOp.res.val = "parse"
     /\ BeforeError # {})
    => /\ \A e \in BeforeError :
             transformData(e, lastOp.patterns[1], lastOp.templates[1]).out \in space
       /\ "count" \in DOMAIN lastOp.res
       /\ lastOp.res.count = Cardinality(BeforeError)

(***************************************************************************)
(* The properties of BytesTrieMap.                                         *)
(***************************************************************************)
\* every key a map can be asked for
KeySpace == UNION { [1..n -> {97, 98}] : n \in 0..MaxKeyLen }

\* the keys that hold a value
keys(t) == { k \in KeySpace : contains_key(t, k) }

\* the receiver of the last call, before and after it
SelfBefore == IF mapCall.self = "a" THEN mapCall.preA ELSE mapCall.preB

SelfAfter == IF mapCall.self = "a" THEN mapA ELSE mapB

\* C17: len() of a BytesTrieMap is the number of the distinct keys it holds;
\* insert returns the value the key held, leaves a held key in the key set
\* with len() unchanged and the new value stored, and makes len() one larger
\* for a key that was not held
C17_LenCountsKeys ==
    /\ len(mapA) = Cardinality(keys(mapA))
    /\ len(mapB) = Cardinality(keys(mapB))
    /\ mapCall.op = "insert"
       => /\ mapCall.ret = get(SelfBefore, mapCall.key)
          /\ get(SelfAfter, mapCall.key) = mapCall.value
          /\ keys(SelfAfter) = keys(SelfBefore) \cup {mapCall.key}
          /\ len(SelfAfter) = len(SelfBefore)
                              + (IF contains_key(SelfBefore, mapCall.key) THEN 0 ELSE 1)

\* insert has replaced the value of a key, in a map that holds a key and an
\* extension of it
C17_Witness ==
    /\ mapCall.op = "insert"
    /\ mapCall.ret # <<>>
    /\ mapCall.ret # mapCall.value
    /\ contains_key(SelfAfter, <<97>>)
    /\ contains_key(SelfAfter, <<97, 98>>)

\* C18: the keys of A.union(B), A.intersection(B) and A.difference(B) are the
\* union, the intersection and the difference of the keys of A and B, every
\* key of the result that A holds has A's value, and A and B are as before
C18_RelationalAlgebra ==
    mapCall.op \in {"union", "intersection", "difference"}
    => /\ keys(mapCall.out) =
             (CASE mapCall.op = "union" -> keys(mapCall.preA) \cup keys(mapCall.preB)
                [] mapCall.op = "intersection" -> keys(mapCall.preA) \cap keys(mapCall.preB)
                [] mapCall.op = "difference" -> keys(mapCall.preA) \ keys(mapCall.preB))
       /\ \A k \in keys(mapCall.out) \cap keys(mapCall.preA) :
             get(mapCall.out, k) = get(mapCall.preA, k)
       /\ mapA = mapCall.preA
       /\ mapB = mapCall.preB

\* a union of two maps that hold a common key with different values and a
\* key each that the other does not hold
C18_Witness ==
    /\ mapCall.op = "union"
    /\ \E k \in keys(mapA) \cap keys(mapB) : get(mapA, k) # get(mapB, k)
    /\ keys(mapA) \ keys(mapB) # {}
    /\ keys(mapB) \ keys(mapA) # {}

\* C19: remove(k) returns the value k held, None if it held none; afterwards
\* get(k) is None and every other key has the value it had
C19_RemoveFrame ==
    mapCall.op = "remove"
    => /\ mapCall.ret = get(SelfBefore, mapCall.key)
       /\ get(SelfAfter, mapCall.key) = <<>>
       /\ \A k \in KeySpace \ {mapCall.key} : get(SelfAfter, k) = get(SelfBefore, k)

\* remove has returned the value of a key while an extension of the key is
\* held
C19_Witness ==
    /\ mapCall.op = "remove"
    /\ mapCall.key = <<97>>
    /\ mapCall.ret # <<>>
    /\ contains_key(SelfAfter, <<97, 98>>)

(***************************************************************************)
(* The properties of ExprQueryEngine.                                      *)
(***************************************************************************)
\* the ids of the stored expressions whose whole structure matches the pattern
Matching(e, pattern) ==
    { id \in DOMAIN e.expressions : matches_pattern(e.expressions[id], pattern) }

NoDuplicates(ids) == \A i, j \in 1..Len(ids) : ids[i] = ids[j] => i = j

\* C20: query(pattern) returns exactly the ids of the currently stored
\* expressions whose whole structure matches the pattern (Any matches every
\* expression, Symbol(s) only the symbol s, Variable(v) only the variable v,
\* a Compound only a compound of equal arity whose children match pairwise),
\* and returns each id at most once.
C20_QueryExactMatches ==
    exprCall.op = "query" =>
        /\ { exprCall.matched_ids[i] : i \in 1..Len(exprCall.matched_ids) }
               = Matching(engine, exprCall.pattern)
        /\ NoDuplicates(exprCall.matched_ids)

Range(seq) == { seq[i] : i \in 1..Len(seq) }

\* the symbols and the arities the indexes are asked for
SymbolNames == { <<97>>, <<98>>, <<99>> }

ArityValues == 0..3

\* what query, query_by_symbol and query_by_arity return for id: the set of
\* the queries whose result contains it
ReturnedBy(e, id) ==
    { <<"query", pattern>> : pattern \in { p \in Patterns : id \in Range(expr_query(e, p)) } }
    \cup { <<"symbol", s>> : s \in { n \in SymbolNames : id \in Range(query_by_symbol(e, n)) } }
    \cup { <<"arity", a>> : a \in { n \in ArityValues : id \in Range(query_by_arity(e, n)) } }

\* C21: after remove(id) returns Some, no query, query_by_symbol or
\* query_by_arity result contains id any more (ids are never handed out
\* twice, so this is: an id that is not stored is returned by nothing),
\* total_expressions has decreased by one, and every other stored expression
\* is returned by exactly the queries that returned it before; remove of an
\* unknown id returns None and changes nothing.
C21_RemoveFrame ==
    /\ \A id \in 1..MaxExprs :
          id \notin DOMAIN engine.expressions => ReturnedBy(engine, id) = {}
    /\ exprCall.op = "remove" /\ exprCall.ret # <<>> =>
          /\ exprCall.id \notin DOMAIN engine.expressions
          /\ stats(engine).total_expressions = stats(exprCall.pre).total_expressions - 1
          /\ DOMAIN engine.expressions = DOMAIN exprCall.pre.expressions \ {exprCall.id}
          /\ \A other \in DOMAIN engine.expressions :
                /\ engine.expressions[other] = exprCall.pre.expressions[other]
                /\ ReturnedBy(engine, other) = ReturnedBy(exprCall.pre, other)
    /\ exprCall.op = "remove" /\ exprCall.ret = <<>> =>
          /\ exprCall.id \notin DOMAIN exprCall.pre.expressions
          /\ engine = exprCall.pre

\* a compound was removed while another expression that shares a symbol with
\* it stays stored, and, in another state, an unknown id was asked for
C21_Witness ==
    /\ exprCall.op = "remove" /\ exprCall.ret # <<>>
    /\ exprCall.ret[1].tag = "Compound"
    /\ \E other \in DOMAIN engine.expressions :
          <<"symbol", <<97>>>> \in ReturnedBy(engine, other)
    /\ <<"symbol", <<97>>>> \in ReturnedBy(exprCall.pre, exprCall.id)

(***************************************************************************)
(* The properties of JsonPathEngine.                                       *)
(***************************************************************************)
\* C22: with caching enabled, query reports cache_hit = false the first time
\* a path string is queried successfully and cache_hit = true on every later
\* query with the same string until clear_cache; cache_stats().size equals
\* the number of distinct path strings compiled successfully since the last
\* clear, and a path that fails to compile adds no entry.
C22_HitAfterFirstSuccess ==
    jsonEngine.config.enable_caching =>
        /\ cache_stats(jsonEngine).size = Cardinality(jsonSeen.compiled)
        /\ jsonCall.op = "query" /\ jsonCall.res.ok =>
              jsonCall.res.cache_hit = (jsonCall.path \in jsonCall.preSeen.answered)
        /\ jsonCall.op = "query" /\ ~compile_path(jsonCall.path).ok =>
              /\ ~jsonCall.res.ok
              /\ jsonEngine = jsonCall.pre

\* C22, amended: cache_hit = false the first time a path string is compiled
\* successfully and true on every later successful query with the same
\* string until clear_cache, also when the query that compiled it failed in
\* evaluation; the size and the failing compilation are as stated.
C22_HitAfterFirstCompile ==
    jsonEngine.config.enable_caching =>
        /\ cache_stats(jsonEngine).size = Cardinality(jsonSeen.compiled)
        /\ DOMAIN jsonEngine.compiled_cache = jsonSeen.compiled
        /\ jsonCall.op = "query" /\ jsonCall.res.ok =>
              jsonCall.res.cache_hit = (jsonCall.path \in jsonCall.preSeen.compiled)
        /\ jsonCall.op = "query" /\ ~compile_path(jsonCall.path).ok =>
              /\ ~jsonCall.res.ok
              /\ jsonEngine = jsonCall.pre

\* a query is answered from the cache although no earlier query with its
\* path string was answered with Ok: the one that compiled it failed
C22_Witness ==
    /\ jsonEngine.config.enable_caching
    /\ jsonCall.op = "query" /\ jsonCall.res.ok /\ jsonCall.res.cache_hit
    /\ jsonCall.path \notin jsonCall.preSeen.answered
    /\ cache_stats(jsonEngine).size >= 2

\* the indices start + k*step (k >= 0) that lie in 0 .. min(end, n) - 1
SliceIndices(n, start, end, step) ==
    { i \in 0..(n - 1) : i >= start /\ (i - start) % step = 0 /\ i < end }

\* C23: a slice [start:end:step] with step > 0 applied to an array of length
\* n returns, in index order, exactly the elements at the indices
\* start + k*step (k >= 0) with 0 <= i < min(end, n), for every start
\* including negative ones; a step of zero yields an EvaluationError.  An
\* omitted start is 0, an omitted end is n, an omitted step is 1.
C23_SliceElements ==
    fnCall.op = "apply_slice_access" =>
        LET n == Len(fnCall.arr.items)
            step == IF fnCall.step = <<>> THEN 1 ELSE fnCall.step[1]
            start == IF fnCall.start = <<>> THEN 0 ELSE fnCall.start[1]
            end == IF fnCall.end = <<>> THEN n ELSE fnCall.end[1]
        IN /\ step = 0 => ~fnCall.res.ok /\ fnCall.res.err = "EvaluationError"
           /\ step > 0 =>
                 /\ fnCall.res.ok
                 /\ [k \in 1..Len(fnCall.res.out) |-> fnCall.res.out[k].value]
                       = [k \in 1..Cardinality(SliceIndices(n, start, end, step)) |->
                             fnCall.arr.items[
                                 SortedSeq(SliceIndices(n, start, end, step))[k] + 1]]

\* how deeply a value is nested: a number 0, an array or object one more
\* than its deepest item
RECURSIVE Nesting(_)
Nesting(v) ==
    IF v.kind = "Number" THEN 0
    ELSE LET below == { Nesting(v.items[i]) : i \in 1..Len(v.items) }
         IN 1 + (IF below = {} THEN 0 ELSE CHOOSE m \in below : \A k \in below : k <= m)

\* a value and all its descendants, each as often as it occurs
RECURSIVE Descendants(_)
Descendants(v) ==
    <<v>> \o Flatten([i \in 1..Len(v.items) |-> Descendants(v.items[i])])

Count(x, seq) == Cardinality({ i \in 1..Len(seq) : seq[i] = x })

\* C24: recursive descent (..) over a value nested more than config.max_depth
\* levels returns RecursionLimit, and a value nested at most max_depth levels
\* is traversed completely, every descendant emitted once.
C24_DepthLimit ==
    (jsonCall.op = "query" /\ jsonCall.path = <<"$", ".", ".">>) =>
        IF Nesting(jsonCall.json) > jsonCall.pre.config.max_depth
        THEN ~jsonCall.res.ok /\ jsonCall.res.err = "RecursionLimit"
        ELSE /\ jsonCall.res.ok
             /\ \A x \in Range(jsonCall.res.values) \cup Range(Descendants(jsonCall.json)) :
                   Count(x, jsonCall.res.values) = Count(x, Descendants(jsonCall.json))

(***************************************************************************)
(* The properties of UnificationEngine.                                    *)
(***************************************************************************)
\* an expression structurally matches a pattern: symbols byte-equal,
\* compounds of equal arity with the children matching pairwise, ? and *
\* matching any sub-expression
RECURSIVE StructMatch(_, _)
StructMatch(expr, pattern) ==
    CASE pattern.tag \in {"Wildcard", "Variable"} -> TRUE
      [] pattern.tag = "Symbol" -> expr.tag = "Symbol" /\ expr.name = pattern.name
      [] OTHER ->
            /\ expr.tag = "Compound"
            /\ expr.arity = pattern.arity
            /\ Len(expr.children) = Len(pattern.children)
            /\ \A i \in 1..Len(pattern.children) :
                  StructMatch(expr.children[i], pattern.children[i])

\* the levels of a pattern: 1 for a symbol, ? or *, one more than its
\* deepest sub-pattern for a compound
RECURSIVE PatternLevels(_)
PatternLevels(pattern) ==
    LET below == { PatternLevels(pattern.children[i]) : i \in 1..Len(pattern.children) }
    IN 1 + (IF below = {} THEN 0 ELSE CHOOSE m \in below : \A k \in below : k <= m)

\* the indices of the results of find_matches, in the order they are returned
Indices(matches) == [k \in 1..Len(matches) |-> matches[k][1]]

MatchingIndices(pattern, expressions) ==
    { i \in 0..(Len(expressions) - 1) : StructMatch(expressions[i + 1], pattern.structure) }

\* C25: find_matches(pattern, exprs) returns, in ascending index order,
\* exactly the indices i for which exprs[i] structurally matches the
\* compiled pattern, and multi_pattern_match returns one such list for every
\* pattern index.
C25_ExactlyMatching ==
    /\ fnCall.op = "find_matches" =>
          Indices(fnCall.res)
              = SortedSeq(MatchingIndices(fnCall.patterns[1], fnCall.expressions))
    /\ fnCall.op = "multi_pattern_match" =>
          /\ DOMAIN fnCall.res.pattern_matches = 0..(Len(fnCall.patterns) - 1)
          /\ \A p \in DOMAIN fnCall.res.pattern_matches :
                Indices(fnCall.res.pattern_matches[p])
                    = SortedSeq(MatchingIndices(fnCall.patterns[p + 1], fnCall.expressions))

\* what is returned for a pattern by an engine with this config: the
\* matching indices when the pattern has at most max_depth levels, else none
WithinDepth(config, pattern, expressions) ==
    IF PatternLevels(pattern.structure) <= config.max_depth
    THEN MatchingIndices(pattern, expressions) ELSE {}

\* C25, amended: as C25 for a pattern of at most config.max_depth levels; a
\* pattern of more levels matches nothing.
C25_ExactlyMatchingWithinDepth ==
    /\ fnCall.op = "find_matches" =>
          Indices(fnCall.res)
              = SortedSeq(WithinDepth(fnCall.config, fnCall.patterns[1], fnCall.expressions))
    /\ fnCall.op = "multi_pattern_match" =>
          /\ DOMAIN fnCall.res.pattern_matches = 0..(Len(fnCall.patterns) - 1)
          /\ \A p \in DOMAIN fnCall.res.pattern_matches :
                Indices(fnCall.res.pattern_matches[p])
                    = SortedSeq(WithinDepth(fnCall.config, fnCall.patterns[p + 1],
                                            fnCall.expressions))

\* two patterns were matched against two expressions by an engine whose
\* max_depth lets one of them through and not the other, and each has an
\* expression that matches it structurally
C25_Witness ==
    /\ fnCall.op = "multi_pattern_match"
    /\ Len(fnCall.patterns) = 2 /\ Len(fnCall.expressions) = 2
    /\ PatternLevels(fnCall.patterns[1].structure) <= fnCall.config.max_depth
    /\ PatternLevels(fnCall.patterns[2].structure) > fnCall.config.max_depth
    /\ Len(fnCall.res.pattern_matches[0]) = 1
    /\ MatchingIndices(fnCall.patterns[2], fnCall.expressions) # {}
    /\ fnCall.res.pattern_matches[1] = <<>>

(***************************************************************************)
(* The metta calculus step.  A path (exec TAG (, p1 .. pn) (, t1 .. tm))   *)
(* is a rule: the step runs transform_multi_multi with the patterns        *)
(* p1 .. pn and the templates t1 .. tm, the rule being in the Space, and   *)
(* takes the rule out of the Space.                                        *)
(***************************************************************************)
\* the symbol with these bytes
Symb(bytes) == <<item_byte(SymbolSize(Len(bytes)))>> \o bytes

\* the compound of these sub-expressions
Tuple(es) == <<item_byte(Arity(Len(es)))>> \o Flatten(es)

S_exec == Symb(<<101, 120, 101, 99>>)

S_comma == Symb(<<44>>)

\* the n sub-expressions of e that start at byte offset off
RECURSIVE ArgsFrom(_, _, _)
ArgsFrom(e, off, n) ==
    IF n = 0 THEN <<>>
    ELSE <<SubExprAt(e, off)>> \o ArgsFrom(e, off + Len(SubExprAt(e, off)), n - 1)

\* the sub-expressions of a compound; none for anything else
Args(e) ==
    IF e # <<>> /\ byte_item(e[1]).tag = "Arity" THEN ArgsFrom(e, 1, byte_item(e[1]).n)
    ELSE <<>>

\* e is (, e1 .. en)
IsConjunction(e) == Args(e) # <<>> /\ Args(e)[1] = S_comma

\* path is (exec TAG (, ..) (, ..))
IsRule(path) ==
    /\ Len(Args(path)) = 4
    /\ Args(path)[1] = S_exec
    /\ IsConjunction(Args(path)[3])
    /\ IsConjunction(Args(path)[4])

\* the rules in lexicographic order of their paths
RECURSIVE RulesInOrder(_)
RulesInOrder(rules) ==
    IF rules = {} THEN <<>>
    ELSE LET first == CHOOSE r \in rules : \A o \in rules \ {r} : LexLess(r, o)
         IN <<first>> \o RulesInOrder(rules \ {first})

\* a step that leaves the rules in the Space
RECURSIVE metta_rules_kept(_, _, _, _, _, _)
metta_rules_kept(S, reg, ret, rules, fired, impl) ==
    IF rules = <<>> THEN [S |-> S, reg |-> reg, ret |-> ret, fired |-> fired]
    ELSE LET rule == Head(rules)
             t == transform_multi_multi_impl(S, reg, ret, Tail(Args(Args(rule)[3])),
                                             Tail(Args(Args(rule)[4])), impl)
         IN metta_rules_kept(t.S, drop(t.q.reg, {"hook", "cursor"}), AfterRET(t.q),
                             Tail(rules),
                             Append(fired, [rule |-> rule, calls |-> t.q.calls]), impl)

\* the rules one after the other: transform_multi_multi, then the rule is
\* taken out; fired is what the action of each rule was invoked with
RECURSIVE metta_rules(_, _, _, _, _, _)
metta_rules(S, reg, ret, rules, fired, impl) ==
    IF rules = <<>> THEN [S |-> S, reg |-> reg, ret |-> ret, fired |-> fired]
    ELSE LET rule == Head(rules)
             t == transform_multi_multi_impl(S, reg, ret, Tail(Args(Args(rule)[3])),
                                             Tail(Args(Args(rule)[4])), impl)
         IN metta_rules(t.S \ {rule}, drop(t.q.reg, {"hook", "cursor"}), AfterRET(t.q),
                        Tail(rules),
                        Append(fired, [rule |-> rule, calls |-> t.q.calls]), impl)

\* Space::metta_calculus(): one step over the rules that are in the Space
metta_calculus(S, reg, ret, impl) ==
    metta_rules(S, reg, ret, RulesInOrder({ p \in S : IsRule(p) }), <<>>, impl)

S_PC0 == Symb(<<80, 67, 48>>)

S_PC1 == Symb(<<80, 67, 49>>)

S_add == Symb(<<97, 100, 100>>)

S_result == Symb(<<114, 101, 115, 117, 108, 116>>)

S_query == Symb(<<63>>)

S_bang == Symb(<<33>>)

S_S == Symb(<<83>>)

S_Z == Symb(<<90>>)

\* (exec PC0 (, (? $channel $payload $body) (! $channel $payload) (exec PC0 $p $t)) (,))
MettaRule ==
    Tuple(<<S_exec, S_PC0,
            Tuple(<<S_comma, Tuple(<<S_query, E_var, E_var, E_var>>),
                    Tuple(<<S_bang, E_ref, E_ref2>>),
                    Tuple(<<S_exec, S_PC0, E_var, E_var>>)>>),
            Tuple(<<S_comma>>)>>)

\* (exec PC1 (, (! $channel $payload)) (, (c $channel)))
CopyRule ==
    Tuple(<<S_exec, S_PC1, Tuple(<<S_comma, Tuple(<<S_bang, E_var, E_var>>)>>),
            Tuple(<<S_comma, Tuple(<<E_c, E_ref>>)>>)>>)

\* (? (add $ret) (Z $y) (! $ret $y))
Handler_Z ==
    Tuple(<<S_query, Tuple(<<S_add, E_var>>), Tuple(<<S_Z, E_var>>),
            Tuple(<<S_bang, E_ref, E_ref2>>)>>)

\* (? (add $ret) ((S $x) $y) (? (add $z) ($x $y) (! $ret (S $z))))
Handler_S ==
    Tuple(<<S_query, Tuple(<<S_add, E_var>>), Tuple(<<Tuple(<<S_S, E_var>>), E_var>>),
            Tuple(<<S_query, Tuple(<<S_add, E_var>>),
                    Tuple(<<E_ref2, <<item_byte(VarRef(2))>> >>),
                    Tuple(<<S_bang, E_ref, Tuple(<<S_S, <<item_byte(VarRef(3))>> >>)>>)>>)>>)

\* (! (add result) ((S Z) (S Z)))
Message_S ==
    Tuple(<<S_bang, Tuple(<<S_add, S_result>>),
            Tuple(<<Tuple(<<S_S, S_Z>>), Tuple(<<S_S, S_Z>>)>>)>>)

\* (! (add result) (Z Z))
Message_Z == Tuple(<<S_bang, Tuple(<<S_add, S_result>>), Tuple(<<S_Z, S_Z>>)>>)

MettaUniverse == { MettaRule, CopyRule, Handler_Z, Handler_S, Message_S, Message_Z, E_c }

InitMetta ==
    /\ space \in SUBSET MettaUniverse
    /\ permits = {}
    /\ RET = "null"
    /\ lastOp = [op |-> "idle", impl |-> "DefaultSpace", patterns |-> <<>>, templates |-> <<>>,
                 abortAt |-> 0, path |-> <<>>, res |-> [ok |-> TRUE, val |-> 0],
                 run |-> FALSE, calls |-> <<>>, stop |-> "run", out |-> <<>>, pre |-> space,
                 prePermits |-> {}, peak |-> {}, preRET |-> "null"]
    /\ InitMap /\ InitExpr /\ InitJson /\ InitFn

\* s.metta_calculus()
MettaCalculus(impl) ==
    /\ Ready
    /\ UNCHANGED notSpaceVars
    /\ \E m \in {metta_calculus(space, permits, RET, impl)} :
          /\ space' = m.S
          /\ permits' = m.reg
          /\ RET' = m.ret
          /\ lastOp' = [Op("metta_calculus") EXCEPT !.impl = impl, !.run = TRUE,
                                                     !.out = m.fired]

NextMetta ==
    \/ Idle
    \/ \E impl \in Impls : MettaCalculus(impl)

SpecMetta == InitMetta /\ [][NextMetta]_vars

\* C26: one metta_calculus step on a Space that holds one exec rule whose
\* match part is the conjunction of a ? handler, a ! message and the rule
\* itself, two ? handlers and one matching ! message, removes the exec rule
\* and leaves exactly the three other paths in the Space, unchanged.
C26_RuleConsumedOthersLeft ==
    \A message \in {Message_S, Message_Z} :
       (lastOp.op = "metta_calculus"
        /\ lastOp.pre = {MettaRule, Handler_Z, Handler_S, message}) =>
           /\ space = {Handler_Z, Handler_S, message}
           /\ MettaRule \notin space

\* the step was made on the Space of the scenario, and the rule fired: the
\* action of its transform was invoked
C26_Witness ==
    /\ lastOp.op = "metta_calculus"
    /\ lastOp.pre = {MettaRule, Handler_Z, Handler_S, Message_S}
    /\ Len(lastOp.out) = 1
    /\ lastOp.out[1].rule = MettaRule
    /\ lastOp.out[1].calls # <<>>
    /\ Cardinality(space) = 3

(***************************************************************************)
(* item_byte and byte_item on every tag and on every byte.                 *)
(***************************************************************************)
\* the tags item_byte is defined on
Tags ==
    {NewVar} \cup { SymbolSize(s) : s \in 1..63 } \cup { VarRef(i) : i \in 0..63 }
             \cup { Arity(a) : a \in 0..63 }

\* the values of a u8
Bytes == 0..255

InitTag ==
    /\ InitOthers
    /\ fnCall \in [op : {"tag"}, tag : Tags] \cup [op : {"byte"}, byte : Bytes]

\* byte_item(item_byte(tag))
ApplyItemByte ==
    /\ fnCall.op = "tag"
    /\ fnCall' = [op |-> "item_byte", tag |-> fnCall.tag, byte |-> item_byte(fnCall.tag),
                  back |-> byte_item(item_byte(fnCall.tag))]
    /\ UNCHANGED notFnVars

\* byte_item(byte)
ApplyByteItem ==
    /\ fnCall.op = "byte"
    /\ fnCall' = [op |-> "byte_item", byte |-> fnCall.byte, tag |-> byte_item(fnCall.byte)]
    /\ UNCHANGED notFnVars

NextTag == ApplyItemByte \/ ApplyByteItem

SpecTag == InitTag /\ [][NextTag]_vars

\* C27: for every tag t of NewVar, SymbolSize(1..63), VarRef(0..63) and
\* Arity(0..63), byte_item(item_byte(t)) = t and no other tag has the byte of
\* t; the bytes that no tag produces are 0x40..0x7F, and byte_item reports
\* exactly those as reserved.
C27_TagByteBijection ==
    /\ fnCall.op = "item_byte" =>
          /\ fnCall.byte \in Bytes
          /\ fnCall.back = fnCall.tag
          /\ \A other \in Tags \ {fnCall.tag} : item_byte(other) # fnCall.byte
    /\ fnCall.op = "byte_item" =>
          /\ (\A t \in Tags : item_byte(t) # fnCall.byte) <=> fnCall.byte \in 64..127
          /\ fnCall.tag.tag = "reserved" <=> fnCall.byte \in 64..127
          /\ fnCall.tag.tag # "reserved" =>
                fnCall.tag \in Tags /\ item_byte(fnCall.tag) = fnCall.byte

\* the NewVar tag went to its byte and back
C27_Witness ==
    /\ fnCall.op = "item_byte"
    /\ fnCall.tag = NewVar
    /\ fnCall.byte = 192
    /\ fnCall.back = NewVar

\* a reserved byte was handed to byte_item
C27_WitnessReserved ==
    /\ fnCall.op = "byte_item"
    /\ fnCall.byte = 127
    /\ fnCall.tag.tag = "reserved"

(***************************************************************************)
(* transform on axioms with variables (tests::subsumption).                *)
(***************************************************************************)
MaxRewritePaths == 5

S_axiom == Symb(<<97, 120, 105, 111, 109>>)

S_flip == Symb(<<102, 108, 105, 112>>)

S_eq == Symb(<<61>>)

S_T == Symb(<<84>>)

S_R == Symb(<<82>>)

\* (axiom (= lhs rhs))
Axiom(lhs, rhs) == Tuple(<<S_axiom, Tuple(<<S_eq, lhs, rhs>>)>>)

\* (axiom (= a b)), (axiom (= (T $x) $x)), (axiom (= $x (T $y))),
\* (axiom (= (T $x $y) (R $y $x))) and c
RewriteUniverse ==
    { Axiom(E_a, E_b),
      Axiom(Tuple(<<S_T, E_var>>), E_ref),
      Axiom(E_var, Tuple(<<S_T, E_var>>)),
      Axiom(Tuple(<<S_T, E_var, E_var>>), Tuple(<<S_R, E_ref2, E_ref>>)),
      E_c }

\* [2] axiom [3] = $ $
AxiomPattern == Axiom(E_var, E_var)

\* [2] flip [3] = _2 _1, [2] flip [3] = _1 _2, [2] flip _2
RewriteTemplates ==
    { Tuple(<<S_flip, Tuple(<<S_eq, E_ref2, E_ref>>)>>),
      Tuple(<<S_flip, Tuple(<<S_eq, E_ref, E_ref2>>)>>),
      Tuple(<<S_flip, E_ref2>>) }

InitRewrite ==
    /\ space \in SUBSET RewriteUniverse
    /\ permits = {}
    /\ RET = "null"
    /\ lastOp = [op |-> "idle", impl |-> "DefaultSpace", patterns |-> <<>>, templates |-> <<>>,
                 abortAt |-> 0, path |-> <<>>, res |-> [ok |-> TRUE, val |-> 0],
                 run |-> FALSE, calls |-> <<>>, stop |-> "run", out |-> <<>>, pre |-> space,
                 prePermits |-> {}, peak |-> {}, preRET |-> "null"]
    /\ InitMap /\ InitExpr /\ InitJson /\ InitFn

\* s.transform(pattern, template)
TransformOne(impl, pattern, template) ==
    /\ Ready
    /\ UNCHANGED notSpaceVars
    /\ \E t \in {transform_multi_multi_impl(space, permits, RET, <<pattern>>, <<template>>,
                                            impl)} :
          \E res \in ReadRET(t.q) :
             /\ Cardinality(t.S) <= MaxRewritePaths
             /\ space' = t.S
             /\ permits' = drop(t.q.reg, {"hook", "cursor"})
             /\ RET' = AfterRET(t.q)
             /\ lastOp' = [Op("transform") EXCEPT
                               !.impl = impl, !.patterns = <<pattern>>, !.templates = <<template>>,
                               !.res = res, !.run = t.q.run, !.calls = t.q.calls,
                               !.stop = t.q.stop, !.peak = t.peak]

NextRewrite ==
    \/ Idle
    \/ \E impl \in Impls, template \in RewriteTemplates :
          TransformOne(impl, AxiomPattern, template)

SpecRewrite == InitRewrite /\ [][NextRewrite]_vars

\* the number of tokens of e before token k that are NewVar
NewVarsBefore(e, k) ==
    Cardinality({ j \in 1..(k - 1) : Tokens(e)[j].t.tag = "NewVar" })

\* e is one complete expression and every VarRef(i) in it comes after at
\* least i + 1 NewVar
WellFormed(e) ==
    /\ e # <<>>
    /\ \A i \in 1..Len(e) : i = 1 \/ i \in { tk.o + 1 : tk \in Range(Tokens(e)) }
                            \/ \E tk \in Range(Tokens(e)) : i > tk.o + 1 /\ i <= tk.o + 1 + Len(tk.s)
    /\ EndOf(e, 1, 1) = Len(e) + 1
    /\ Tokens(e)[Len(Tokens(e))].o + TokLen(e[Tokens(e)[Len(Tokens(e))].o + 1]) = Len(e)
    /\ \A k \in 1..Len(Tokens(e)) :
          /\ Tokens(e)[k].t.tag # "reserved"
          /\ Tokens(e)[k].t.tag = "VarRef" => NewVarsBefore(e, k) >= Tokens(e)[k].t.n + 1

\* the bytes of the template's literal tokens plus the spans of the
\* references its VarRef tokens name
RECURSIVE SpanSum(_, _, _)
SpanSum(tmpl, refs, k) ==
    IF k > Len(Tokens(tmpl)) THEN 0
    ELSE (IF Tokens(tmpl)[k].t.tag = "VarRef" THEN Len(refs[Tokens(tmpl)[k].t.n + 1])
          ELSE 1 + Len(Tokens(tmpl)[k].s))
         + SpanSum(tmpl, refs, k + 1)

\* the paths the last transform wrote
Written == space \ lastOp.pre

\* C28: every path that transform writes into the Space is a well-formed
\* encoded expression: its span is the sum of the template's literal bytes
\* and of the spans of the substituted references, and every VarRef(i) in it
\* is preceded by at least i + 1 NewVar bytes, also when the captured
\* references contain NewVar or VarRef bytes and the template reorders them.
C28_WrittenWellFormed ==
    lastOp.op = "transform" =>
       \A p \in Written :
          /\ WellFormed(p)
          /\ \E j \in 1..Len(lastOp.calls) :
                Len(p) = SpanSum(lastOp.templates[1], RefsOf(lastOp.calls[j]), 1)

\* the span half of the claim alone
C28_SpanOnly ==
    lastOp.op = "transform" =>
       \A p \in Written :
          /\ EndOf(p, 1, 1) = Len(p) + 1
          /\ \E j \in 1..Len(lastOp.calls) :
                Len(p) = SpanSum(lastOp.templates[1], RefsOf(lastOp.calls[j]), 1)

(***************************************************************************)
(* The loaders on tokens of every length: load_json_impl through the       *)
(* SpaceTranscriber, load_csv_impl and load_sexpr_impl, in the build       *)
(* without interning.  The write zipper of the transcriber is [S, at]: the *)
(* paths with a value and the path of the focus.                           *)
(***************************************************************************)
\* SpaceTranscriber::write(s)
write(wz, s) ==
    LET token == tokenizer(s)
        path == <<item_byte(SymbolSize(Len(token)))>> \o token
    IN [wz EXCEPT !.S = @ \cup {wz.at \o path}]

\* Transcriber::descend_key(k, first)
descend_key(wz, k, first) ==
    LET token == tokenizer(k)
    IN [wz EXCEPT !.at = @ \o (IF first THEN <<item_byte(Arity(2))>> ELSE <<>>)
                             \o <<item_byte(SymbolSize(Len(token)))>> \o token]

\* Transcriber::ascend_key(k, last)
ascend_key(wz, k, last) ==
    [wz EXCEPT !.at = SubSeq(@, 1, Len(@) - (Len(tokenizer(k)) + 1) - (IF last THEN 1 ELSE 0))]

\* Transcriber::write_string(s)
write_string(wz, s) == write(wz, s)

\* load_json_impl on the document {"k": "s"}: the parser descends to the
\* key, writes the string and ascends
load_json_impl(S, k, s) ==
    ascend_key(write_string(descend_key([S |-> S, at |-> <<>>], k, TRUE), s), k, TRUE)

\* the token of n bytes a, b, c, ..
Token(n) == [i \in 1..n |-> 97 + (i % 26)]

\* the lengths of the tokens: empty, short, the longest symbol, one more
TokenLens == {0, 1, 2, MaxSymbolLen, MaxSymbolLen + 1}

InitLoad ==
    /\ InitOthers
    /\ fnCall \in [op : {"input"}, loader : {"json", "csv", "sexpr"},
                   first : { Token(n) : n \in TokenLens },
                   second : { Token(n) : n \in TokenLens }, written : {{}}]

\* load_json on {"first": "second"}
ApplyLoadJson ==
    /\ fnCall.op = "input" /\ fnCall.loader = "json"
    /\ fnCall' = [fnCall EXCEPT !.op = "load_json",
                                !.written = load_json_impl({}, fnCall.first, fnCall.second).S]
    /\ UNCHANGED notFnVars

\* load_csv on the line first,second with the pattern $ and the template _1
ApplyLoadCsv ==
    /\ fnCall.op = "input" /\ fnCall.loader = "csv"
    /\ fnCall' = [fnCall EXCEPT
                     !.op = "load_csv",
                     !.written = load_impl({}, {}, <<csv_row(<<fnCall.first, fnCall.second>>)>>,
                                           E_var, E_ref, "grant").S]
    /\ UNCHANGED notFnVars

\* load_sexpr on (first second) with the pattern $ and the template _1; the
\* lexer yields no empty token
ApplyLoadSexpr ==
    /\ fnCall.op = "input" /\ fnCall.loader = "sexpr"
    /\ fnCall.first # <<>> /\ fnCall.second # <<>>
    /\ fnCall' = [fnCall EXCEPT
                     !.op = "load_sexpr",
                     !.written = load_impl({}, {}, <<Tuple(<<write_symbol(tokenizer(fnCall.first)),
                                                             write_symbol(tokenizer(fnCall.second))>>)>>,
                                           E_var, E_ref, "grant").S]
    /\ UNCHANGED notFnVars

NextLoad == ApplyLoadJson \/ ApplyLoadCsv \/ ApplyLoadSexpr

SpecLoad == InitLoad /\ [][NextLoad]_vars

\* the symbol a loader is to write for a token: its first 63 bytes under
\* the byte of their number
CutSymbol(token) ==
    LET n == IF Len(token) > MaxSymbolLen THEN MaxSymbolLen ELSE Len(token)
    IN <<192 + n>> \o SubSeq(token, 1, n)

\* C29: no loader (JSON, CSV, S-expression) writes the byte 0xC0 as a symbol
\* header: every symbol written has a size between 1 and 63, also for empty
\* input tokens (an empty JSON string or key, an empty CSV field) in the
\* build without interning, and symbols longer than 63 bytes are cut to 63.
C29_NoEmptySymbolHeader ==
    fnCall.op \in {"load_json", "load_csv", "load_sexpr"} =>
       /\ fnCall.written # {}
       /\ \A p \in fnCall.written :
             /\ Len(Tokens(p)) = 3
             /\ Tokens(p)[1].t = Arity(2)
             /\ \A k \in 2..3 :
                   /\ p[Tokens(p)[k].o + 1] # 192
                   /\ Tokens(p)[k].t.tag = "SymbolSize"
                   /\ Tokens(p)[k].t.n \in 1..MaxSymbolLen
             /\ Len(fnCall.first) > 0 /\ Len(fnCall.second) > 0 =>
                   p = <<2>> \o CutSymbol(fnCall.first) \o CutSymbol(fnCall.second)

\* the half of the claim about tokens that are not empty
C29_NonEmptyTokens ==
    (/\ fnCall.op \in {"load_json", "load_csv", "load_sexpr"}
     /\ Len(fnCall.first) > 0 /\ Len(fnCall.second) > 0) =>
       fnCall.written = { <<2>> \o CutSymbol(fnCall.first) \o CutSymbol(fnCall.second) }

(***************************************************************************)
(* referential_transition on programs with every opcode on top, over the   *)
(* tries of two paths at most.                                             *)
(***************************************************************************)
\* the paths of the tries the engine runs over
EnginePaths ==
    Universe \cup { E_a, E_var, Pair(E_var, E_ref), Pair(E_a, E_b) \o E_b,
                    Pair(Pair(E_a, E_b), E_a),
                    <<item_byte(Arity(3))>> \o E_a \o E_b \o E_a }

EngineTries == { T \in SUBSET EnginePaths : Cardinality(T) <= MaxPaths }

\* opcode buffers, bottom first: the program under each opcode and the
\* operands the opcode takes from the buffer
OpcodePrograms ==
    { <<OP_ACTION>>,
      <<OP_ACTION, RESERVED>>,
      <<OP_ACTION, ITER_EXPR>>,
      <<OP_ACTION, ITER_EXPR, ITER_EXPR>>,
      <<OP_ACTION, ITER_VARIABLES>>,
      <<OP_ACTION, ITER_SYMBOLS>>,
      <<OP_ACTION, ITER_AT_DEPTH, ITER_SYMBOL_SIZE>>,
      <<OP_ACTION, ITER_NESTED, ITER_ARITIES>>,
      <<OP_ACTION, 0, ITER_AT_DEPTH>>,
      <<OP_ACTION, 1, ITER_AT_DEPTH>>,
      <<OP_ACTION, 2, ITER_AT_DEPTH>>,
      <<OP_ACTION, 1, ITER_AT_DEPTH, 0, ITER_ARITY>>,
      <<OP_ACTION, 2, ITER_AT_DEPTH, 2, ITER_ARITY>>,
      <<OP_ACTION, 0, ITER_NESTED>>,
      <<OP_ACTION, 1, ITER_NESTED>>,
      <<OP_ACTION, 2, ITER_NESTED>>,
      <<OP_ACTION, 3, ITER_NESTED>>,
      <<OP_ACTION, 97, 1, ITER_SYMBOL>>,
      <<OP_ACTION, 97, 1, ITER_VAR_SYMBOL>>,
      <<OP_ACTION, 98, 1, ITER_SYMBOL, 97, 1, ITER_SYMBOL, 2, ITER_ARITY>>,
      <<OP_ACTION, ITER_EXPR, 97, 1, ITER_VAR_SYMBOL, 2, ITER_VAR_ARITY>>,
      <<OP_ACTION, FINALIZE_RANGE, ITER_EXPR, BEGIN_RANGE>>,
      <<OP_ACTION, 0, REFER_RANGE>>,
      <<OP_ACTION, 0, REFER_RANGE, FINALIZE_RANGE, ITER_EXPR, BEGIN_RANGE, 2, ITER_VAR_ARITY>>,
      <<OP_ACTION, 0, REFER_RANGE, FINALIZE_RANGE, ITER_EXPR, BEGIN_RANGE, 2, ITER_ARITY>> }

\* the programs: the ones above at the root, and the compiled pattern lists
\* at the prefix of their first pattern (the trie is then the product of
\* the factors)
EnginePrograms ==
    { [buf |-> b, loc |-> <<>>] : b \in OpcodePrograms }
    \cup { [buf |-> Stack(ps), loc |-> prefix(ps[1])] :
             ps \in PatternLists }

InitEngine ==
    /\ InitOthers
    /\ fnCall \in [op : {"input"}, T : EngineTries, program : EnginePrograms,
                   abortAt : 0..1,
                   res : {[stop |-> "run", last |-> 0, lo |-> 0, hi |-> 0, buf |-> <<>>,
                           spOk |-> TRUE,
                           bufOk |-> TRUE, calls |-> 0, loc |-> <<>>, locOk |-> TRUE,
                           refs |-> <<>>, refsOk |-> TRUE, called |-> <<>>]}]

\* referential_transition(stack.last, &mut prz, &mut references, &mut f)
ApplyTransition ==
    /\ fnCall.op = "input"
    /\ \E d \in {Exec([T |-> fnCall.T, root |-> Len(fnCall.program.loc),
                       abortAt |-> fnCall.abortAt, buf |-> fnCall.program.buf,
                       last |-> Len(fnCall.program.buf), lo |-> Len(fnCall.program.buf),
                       hi |-> Len(fnCall.program.buf), loc |-> fnCall.program.loc,
                       refs |-> <<>>, calls |-> <<>>, cand |-> 0, stop |-> "run",
                       spOk |-> TRUE, bufOk |-> TRUE, locOk |-> TRUE, refsOk |-> TRUE,
                       ctl |-> referential_transition,
                       k |-> <<>>])} :
          fnCall' = [fnCall EXCEPT
                        !.op = "referential_transition",
                        !.res = [stop |-> d.stop, last |-> d.last, lo |-> d.lo, hi |-> d.hi,
                                 buf |-> d.buf,
                                 spOk |-> d.spOk, bufOk |-> d.bufOk, calls |-> Len(d.calls),
                                 loc |-> d.loc, locOk |-> d.locOk, refs |-> d.refs,
                                 refsOk |-> d.refsOk, called |-> d.calls]]
    /\ UNCHANGED notFnVars

NextEngine == ApplyTransition

SpecEngine == InitEngine /\ [][NextEngine]_vars

\* C30: for every opcode and every trie, when referential_transition returns
\* normally the stack pointer equals its entry value and the opcode buffer
\* from the entry top of stack downward holds the bytes it held on entry;
\* this holds of the call made and of every call it made in turn.
C30_StackRestored ==
    (fnCall.op = "referential_transition" /\ fnCall.res.stop = "run") =>
       /\ fnCall.res.last = Len(fnCall.program.buf)
       /\ SubSeq(fnCall.res.buf, 1, Len(fnCall.program.buf)) = fnCall.program.buf
       /\ fnCall.res.spOk
       /\ fnCall.res.bufOk

\* REFER_RANGE under ITER_VAR_ARITY ran over a trie with (a a), the action was
\* invoked and the call returned
C30_Witness ==
    /\ fnCall.op = "referential_transition"
    /\ fnCall.res.stop = "run"
    /\ fnCall.program.buf[Len(fnCall.program.buf)] = ITER_VAR_ARITY
    /\ REFER_RANGE \in Range(fnCall.program.buf)
    /\ Pair(E_a, E_a) \in fnCall.T
    /\ fnCall.res.calls > 0

RECURSIVE MatchTokens(_, _)
MatchTokens(ps, k) ==
    IF k > Len(ps) THEN <<>>
    ELSE SelectSeq(Tokens(ps[k]), LAMBDA tk : k = 1 \/ tk.o >= Len(prefix(ps[k])))
         \o MatchTokens(ps, k + 1)

\* the offsets in path at which the NewVar tokens matched: the tokens and
\* the path are walked together, a NewVar or a VarRef taking one
\* sub-expression of the path
RECURSIVE VarStarts(_, _, _, _)
VarStarts(toks, i, path, off) ==
    IF i > Len(toks) THEN <<>>
    ELSE IF toks[i].t.tag = "NewVar"
    THEN <<off>> \o VarStarts(toks, i + 1, path, off + Len(SubExprAt(path, off)))
    ELSE IF toks[i].t.tag = "VarRef"
    THEN VarStarts(toks, i + 1, path, off + Len(SubExprAt(path, off)))
    ELSE VarStarts(toks, i + 1, path, off + 1 + Len(toks[i].s))

\* C32: whenever the action is invoked the references hold one entry for each
\* NewVar in the non-prefix part of the patterns, in order of introduction,
\* each at the absolute cursor position where the sub-expression of that
\* variable starts; when the engine returns normally the list is empty again.
C32_ReferencesPerNewVar ==
    \A ps \in PatternLists :
       (fnCall.op = "referential_transition"
        /\ fnCall.program = [buf |-> Stack(ps), loc |-> prefix(ps[1])]) =>
          /\ \A j \in 1..Len(fnCall.res.called) :
                fnCall.res.called[j].refs
                   = VarStarts(MatchTokens(ps, 1), 1, fnCall.res.called[j].path, 0)
          /\ fnCall.res.stop = "run" =>
                fnCall.res.refs = <<>> /\ fnCall.res.refsOk

\* the action was invoked with two references, on (a b) under the pattern
\* ($ $), and the engine returned
C32_Witness ==
    /\ fnCall.op = "referential_transition"
    /\ fnCall.program.buf = Stack(<<Pair(E_var, E_var)>>)
    /\ fnCall.res.stop = "run"
    /\ \E j \in 1..Len(fnCall.res.called) :
          /\ fnCall.res.called[j].path = Pair(E_a, E_b)
          /\ fnCall.res.called[j].refs = <<1, 3>>
    /\ fnCall.res.refs = <<>>

\* the sub-expressions that are still due when e ends, of `need` that start at i
RECURSIVE NeedLeft(_, _, _)
NeedLeft(e, i, need) ==
    IF need = 0 \/ i > Len(e) THEN need
    ELSE IF byte_item(e[i]).tag = "Arity"
         THEN NeedLeft(e, i + 1, need - 1 + byte_item(e[i]).n)
         ELSE IF i + TokLen(e[i]) - 1 > Len(e) THEN need
         ELSE NeedLeft(e, i + TokLen(e[i]), need - 1)

\* e is one complete sub-expression: a variable byte, a symbol of 1 + s
\* bytes, or an Arity(a) byte and a complete sub-expressions
Complete(e) == e # <<>> /\ NeedLeft(e, 1, 1) = 0 /\ EndOf(e, 1, 1) = Len(e) + 1

\* the tokens from the i-th on take the path from off to its end: a literal
\* token its own bytes or a variable byte of the path (ITER_VAR_SYMBOL,
\* ITER_VAR_ARITY), a variable one complete sub-expression
RECURSIVE Covers(_, _, _, _)
Covers(toks, i, path, off) ==
    IF i > Len(toks) THEN off = Len(path)
    ELSE IF off >= Len(path) THEN FALSE
    ELSE IF toks[i].t.tag \in {"NewVar", "VarRef"}
    THEN /\ Complete(SubExprAt(path, off))
         /\ Covers(toks, i + 1, path, off + Len(SubExprAt(path, off)))
    ELSE \/ /\ off + 1 + Len(toks[i].s) <= Len(path)
            /\ SubSeq(path, off + 1, off + 1 + Len(toks[i].s))
                  = <<item_byte(toks[i].t)>> \o toks[i].s
            /\ Covers(toks, i + 1, path, off + 1 + Len(toks[i].s))
         \/ /\ path[off + 1] \in VARS
            /\ Covers(toks, i + 1, path, off + 1)

\* C33: between BEGIN_RANGE and FINALIZE_RANGE, ITER_EXPR advances the cursor
\* over exactly one complete sub-expression of the stored path (a variable
\* byte, a symbol of 1 + s bytes, or an Arity(a) byte and a complete
\* sub-expressions), so that the next pattern token is matched at the first
\* byte after it: at every invocation of the action the tokens of the
\* pattern take the cursor path, each $ one complete sub-expression.
C33_OneSubExpression ==
    \A ps \in { qs \in PatternLists : Len(qs) = 1 } :
       (fnCall.op = "referential_transition"
        /\ fnCall.program = [buf |-> Stack(ps), loc |-> prefix(ps[1])]) =>
          \A j \in 1..Len(fnCall.res.called) :
             Covers(Tokens(ps[1]), 1, fnCall.res.called[j].path, 0)

\* under the pattern ($ a) the $ took the compound (a b): the action was
\* invoked on ((a b) a)
C33_Witness ==
    /\ fnCall.op = "referential_transition"
    /\ fnCall.program.buf = Stack(<<Pair(E_var, E_a)>>)
    /\ \E j \in 1..Len(fnCall.res.called) :
          /\ fnCall.res.called[j].path = Pair(Pair(E_a, E_b), E_a)
          /\ fnCall.res.called[j].refs = <<1>>

\* the opcode and the operands of one token of a pattern, as they are met
\* from the top of the stack downward
OpsOfToken(tk) ==
    CASE tk.t.tag = "NewVar" -> <<BEGIN_RANGE, ITER_EXPR, FINALIZE_RANGE>>
      [] tk.t.tag = "VarRef" -> <<REFER_RANGE, tk.t.n>>
      [] tk.t.tag = "SymbolSize" -> <<ITER_VAR_SYMBOL, Len(tk.s)>> \o tk.s
      [] tk.t.tag = "Arity" -> <<ITER_VAR_ARITY, tk.t.n>>

\* the opcodes of the patterns from the k-th on: of each pattern the tokens
\* that lie after its constant prefix, in the order of the expression
RECURSIVE OpsInOrder(_, _)
OpsInOrder(ps, k) ==
    IF k > Len(ps) THEN <<>>
    ELSE LET toks == SelectSeq(Tokens(ps[k]), LAMBDA tk : tk.o >= Len(prefix(ps[k])))
         IN Flatten([i \in 1..Len(toks) |-> OpsOfToken(toks[i])]) \o OpsInOrder(ps, k + 1)

\* C34: in the stack program compiled for the patterns p1 .. pn the tokens of
\* p1 after its constant prefix are executed first, in expression order, then
\* those of p2, and so on; tokens inside a constant prefix emit no opcode;
\* and ACTION is executed only after every emitted opcode of every pattern
\* has matched.
C34_ProgramOrder ==
    \A ps \in PatternLists :
       (fnCall.op = "referential_transition"
        /\ fnCall.program = [buf |-> Stack(ps), loc |-> prefix(ps[1])]) =>
          /\ Reverse(fnCall.program.buf) = OpsInOrder(ps, 1) \o <<OP_ACTION>>
          /\ \A j \in 1..Len(fnCall.res.called) :
                Covers(MatchTokens(ps, 1), 1, fnCall.res.called[j].path, 0)

\* the program of (a $) (b _1) ran on the product path (a b) b and the
\* action was invoked there
C34_Witness ==
    /\ fnCall.op = "referential_transition"
    /\ fnCall.program.buf = Stack(<<Pair(E_a, E_var), Pair(E_b, E_ref)>>)
    /\ \E j \in 1..Len(fnCall.res.called) :
          fnCall.res.called[j].path = Pair(E_a, E_b) \o E_b

\* the paths of a set in ascending byte order
RECURSIVE InByteOrder(_)
InByteOrder(paths) ==
    IF paths = {} THEN <<>>
    ELSE LET first == CHOOSE p \in paths : \A o \in paths \ {p} : LexLess(p, o)
         IN <<first>> \o InByteOrder(paths \ {first})

\* the nodes of the trie that lie exactly level bytes below the node at
NodesBelow(T, at, level) ==
    { SubSeq(p, 1, Len(at) + level) :
        p \in { q \in T : IsPrefix(at, q) /\ Len(q) >= Len(at) + level } }

\* the node a program enters ITER_AT_DEPTH at: the root, or the arity byte
\* ITER_ARITY descended to
DepthPrograms ==
    { [buf |-> <<OP_ACTION, level, ITER_AT_DEPTH>>, entry |-> <<>>, level |-> level] :
        level \in 1..2 }
    \cup { [buf |-> <<OP_ACTION, 1, ITER_AT_DEPTH, 0, ITER_ARITY>>, entry |-> <<0>>, level |-> 1],
           [buf |-> <<OP_ACTION, 2, ITER_AT_DEPTH, 2, ITER_ARITY>>, entry |-> <<2>>, level |-> 2] }

C36_ErrorSlotNotObserved ==
    [][(/\ lastOp.op = "idle"
        /\ lastOp'.op = "query"
        /\ lastOp'.run
        /\ lastOp'.stop = "run")
       => lastOp'.res = [ok |-> TRUE, val |-> Len(lastOp'.calls)]]_vars

(***************************************************************************)
(* The indexes of ExprQueryEngine.                                         *)
(***************************************************************************)
\* the symbols a structure contains
RECURSIVE SymbolsOf(_)
SymbolsOf(structure) ==
    CASE structure.tag = "Symbol" -> {structure.name}
      [] structure.tag = "Compound" ->
            UNION { SymbolsOf(structure.children[i]) : i \in 1..Len(structure.children) }
      [] OTHER -> {}

\* the compounds a structure contains, itself included
RECURSIVE CompoundsOf(_)
CompoundsOf(structure) ==
    IF structure.tag = "Compound"
    THEN {structure}
         \cup UNION { CompoundsOf(structure.children[i]) : i \in 1..Len(structure.children) }
    ELSE {}

Stored(e) == { e.expressions[id] : id \in DOMAIN e.expressions }

\* C38: after any sequence of insert and remove, symbol_index lists id under
\* symbol s exactly when expression id is stored and contains s, arity_index
\* lists id under a exactly when expression id is stored and contains a
\* compound of arity a, and no index entry has an empty id list, so
\* stats().unique_symbols is the number of distinct symbols of the stored
\* expressions.
C38_IndexesExact ==
    /\ DOMAIN engine.symbol_index \subseteq SymbolNames
    /\ DOMAIN engine.arity_index \subseteq ArityValues
    /\ \A s \in SymbolNames, id \in 1..MaxExprs :
          (s \in DOMAIN engine.symbol_index /\ id \in Range(engine.symbol_index[s]))
          <=> (id \in DOMAIN engine.expressions /\ s \in SymbolsOf(engine.expressions[id]))
    /\ \A a \in ArityValues, id \in 1..MaxExprs :
          (a \in DOMAIN engine.arity_index /\ id \in Range(engine.arity_index[a]))
          <=> /\ id \in DOMAIN engine.expressions
              /\ \E c \in CompoundsOf(engine.expressions[id]) : c.arity = a
    /\ \A s \in DOMAIN engine.symbol_index : engine.symbol_index[s] # <<>>
    /\ \A a \in DOMAIN engine.arity_index : engine.arity_index[a] # <<>>
    /\ stats(engine).unique_symbols
          = Cardinality(UNION { SymbolsOf(x) : x \in Stored(engine) })

\* an expression was removed that shared the symbol a with a stored one and
\* was the only one to contain b
C38_Witness ==
    /\ exprCall.op = "remove" /\ exprCall.ret # <<>>
    /\ SymbolsOf(exprCall.ret[1]) = {<<97>>, <<98>>}
    /\ <<97>> \in DOMAIN engine.symbol_index
    /\ <<98>> \notin DOMAIN engine.symbol_index
    /\ stats(engine).unique_symbols = 1

\* the keys of structure_index
StructureKeys(e) == { k \in DOMAIN e.structure_index : e.structure_index[k] # <<>> }

\* the structural keys of the compounds of the stored expressions
StoredKeys(e) ==
    { create_structural_key(c) : c \in UNION { CompoundsOf(x) : x \in Stored(e) } }

\* C39: after any sequence of insert and remove, structure_index contains the
\* structural key of every compound, top-level or nested, of every stored
\* expression and no other key, so stats().structure_index_size is the
\* number of distinct structural keys of the stored compounds, also when two
\* stored expressions share a structure and one of them is removed.
C39_StructureIndexExact ==
    /\ StructureKeys(engine) = StoredKeys(engine)
    /\ stats(engine).structure_index_size = Cardinality(StoredKeys(engine))

(***************************************************************************)
(* Alternative patterns of UnificationEngine.                              *)
(***************************************************************************)
PatternAlternative(ps) == [Pattern("Alternative") EXCEPT !.children = ps]

\* the alternatives (?1 b) | ?2, (?1 b) | (* ?1), a | b, ?1 | ?2,
\* (a ?1) | (?1 ?2) and (a (?1 a)) | (a ?1)
AlternativePatterns ==
    { CompiledPattern(PatternAlternative(
          <<PatternCompound(<<PatternVariable(1), PatternSymbol(<<98>>)>>),
            PatternVariable(2)>>)),
      CompiledPattern(PatternAlternative(
          <<PatternCompound(<<PatternVariable(1), PatternSymbol(<<98>>)>>),
            PatternCompound(<<Wildcard, PatternVariable(1)>>)>>)),
      CompiledPattern(PatternAlternative(<<PatternSymbol(<<97>>), PatternSymbol(<<98>>)>>)),
      CompiledPattern(PatternAlternative(<<PatternVariable(1), PatternVariable(2)>>)),
      CompiledPattern(PatternAlternative(
          <<PatternCompound(<<PatternSymbol(<<97>>), PatternVariable(1)>>),
            PatternCompound(<<PatternVariable(1), PatternVariable(2)>>)>>)),
      CompiledPattern(PatternAlternative(
          <<PatternCompound(<<PatternSymbol(<<97>>),
                              PatternCompound(<<PatternVariable(1), PatternSymbol(<<97>>)>>)>>),
            PatternCompound(<<PatternSymbol(<<97>>), PatternVariable(1)>>)>>)) }

InitAlternative ==
    /\ InitOthers
    /\ fnCall \in [op : {"input"},
                   config : { [max_depth |-> d, occurs_check |-> TRUE, enable_caching |-> TRUE,
                               max_variables |-> 1000] : d \in UnifyDepths },
                   pattern : AlternativePatterns,
                   expr : UnifyExprs,
                   res : {<<>>}]

\* engine.unify(&expr, &pattern)
ApplyUnify ==
    /\ fnCall.op = "input"
    /\ fnCall' = [fnCall EXCEPT !.op = "unify",
                                !.res = unify(fnCall.config, fnCall.expr, fnCall.pattern)]
    /\ UNCHANGED notFnVars

NextAlternative == ApplyUnify

SpecAlternative == InitAlternative /\ [][NextAlternative]_vars

\* what unify returns for the i-th alternative of the pattern on its own
OnItsOwn(i) ==
    unify(fnCall.config, fnCall.expr, CompiledPattern(fnCall.pattern.structure.children[i]))

\* C40: unify of an expression against an Alternative pattern succeeds
\* exactly when at least one alternative unifies with the expression on its
\* own, and on success the returned bindings contain only bindings made by
\* the successful alternative: the bindings made while an alternative, or a
\* child of a compound, was tried that then failed are discarded.  (Of an
\* engine whose max_depth is at least the number of levels of the pattern.)
C40_AlternativeBindings ==
    (/\ fnCall.op = "unify"
     /\ PatternLevels(fnCall.pattern.structure) <= fnCall.config.max_depth)
    => LET n == Len(fnCall.pattern.structure.children)
       IN /\ fnCall.res.success <=> \E i \in 1..n : OnItsOwn(i).success
          /\ fnCall.res.success =>
                \E i \in 1..n :
                   /\ OnItsOwn(i).success
                   /\ \A var \in DOMAIN fnCall.res.bindings :
                         /\ var \in DOMAIN OnItsOwn(i).bindings
                         /\ fnCall.res.bindings[var] = OnItsOwn(i).bindings[var]

(***************************************************************************)
(* The bounds of the opcode stack.                                         *)
(***************************************************************************)
\* stack.reserve(4096): the bytes the buffer has above the compiled program
Reserved == 4096

\* the run of a query: a compiled pattern list at the prefix of its first
\* pattern
QueryRun ==
    /\ fnCall.op = "referential_transition"
    /\ \E ps \in PatternLists : fnCall.program = [buf |-> Stack(ps), loc |-> prefix(ps[1])]

\* C37: during a query the opcode stack pointer stays inside the allocated
\* buffer (the compiled program and the 4096 reserved bytes above it) and
\* never drops below its first byte, also while REFER_RANGE expands a
\* captured sub-expression in place and while ITER_NESTED pushes its
\* arity - 1 copies of ITER_EXPR at every level of nesting.
C37_StackPointerInBuffer ==
    QueryRun => /\ fnCall.res.lo >= 1
                /\ fnCall.res.hi <= Len(fnCall.program.buf) + Reserved

\* what the stack pointer does reach: the byte below the buffer, when ACTION
\* has been popped, and no lower
C37_Lowest ==
    QueryRun => /\ fnCall.res.lo >= 0
                /\ fnCall.res.calls > 0 => fnCall.res.lo = 0

====
